---------------------------- MODULE Spec2Model ----------------------------
(***************************************************************************)
(* Model of the feed reader's HTML sanitizer (reader/sanitizer) and of the *)
(* fetcher's configuration-keyed HTTP client cache (reader/fetcher).       *)
(*                                                                         *)
(* Strings are sequences of atoms.  The characters < > / = " ' & # and the *)
(* space are always atoms of their own; every other atom is a word holding *)
(* none of them.  Concatenation is \o, so prefix and substring tests on    *)
(* atom sequences agree with the tests on the strings they spell.          *)
(***************************************************************************)
EXTENDS Integers, Sequences, FiniteSets, TLC

(***************************************************************************)
(* Bounds of the model.                                                    *)
(***************************************************************************)
MaxTokens == 3
MaxAttrTokens == 1

(***************************************************************************)
(* strings.HasPrefix, strings.Contains, strings.Join over atom sequences.  *)
(***************************************************************************)
HasPrefix(s, prefix) ==
    /\ Len(prefix) <= Len(s)
    /\ SubSeq(s, 1, Len(prefix)) = prefix

Contains(s, sub) ==
    \E i \in 1..(Len(s) - Len(sub) + 1) : SubSeq(s, i, i + Len(sub) - 1) = sub

RECURSIVE Join(_, _)
Join(parts, sep) ==
    IF parts = <<>> THEN <<>>
    ELSE IF Len(parts) = 1 THEN parts[1]
    ELSE parts[1] \o sep \o Join(Tail(parts), sep)

(***************************************************************************)
(* html.EscapeString: & ' < > " become &amp; &#39; &lt; &gt; &#34;.        *)
(***************************************************************************)
EscapeAtom(c) ==
    CASE c = "&"  -> <<"&", "amp;">>
      [] c = "'"  -> <<"&", "#", "39;">>
      [] c = "<"  -> <<"&", "lt;">>
      [] c = ">"  -> <<"&", "gt;">>
      [] c = "\"" -> <<"&", "#", "34;">>
      [] OTHER    -> <<c>>

RECURSIVE EscapeString(_)
EscapeString(s) ==
    IF s = <<>> THEN <<>> ELSE EscapeAtom(Head(s)) \o EscapeString(Tail(s))

(***************************************************************************)
(* The tokenizer's unescape of text and attribute values: the five         *)
(* entities EscapeString writes are read back as the character they name;  *)
(* any other & stands for itself.                                          *)
(***************************************************************************)
RECURSIVE Unescape(_)
Unescape(s) ==
    IF s = <<>> THEN <<>>
    ELSE IF Head(s) # "&" \/ Len(s) = 1 THEN <<Head(s)>> \o Unescape(Tail(s))
    ELSE IF s[2] = "amp;" THEN <<"&">> \o Unescape(SubSeq(s, 3, Len(s)))
    ELSE IF s[2] = "lt;" THEN <<"<">> \o Unescape(SubSeq(s, 3, Len(s)))
    ELSE IF s[2] = "gt;" THEN <<">">> \o Unescape(SubSeq(s, 3, Len(s)))
    ELSE IF s[2] = "#" /\ Len(s) >= 3 /\ s[3] = "39;"
         THEN <<"'">> \o Unescape(SubSeq(s, 4, Len(s)))
    ELSE IF s[2] = "#" /\ Len(s) >= 3 /\ s[3] = "34;"
         THEN <<"\"">> \o Unescape(SubSeq(s, 4, Len(s)))
    ELSE <<"&">> \o Unescape(Tail(s))


(***************************************************************************)
(* Index of the first occurrence of sub in s, 0 when there is none.        *)
(***************************************************************************)
IndexOf(s, sub) ==
    IF Contains(s, sub)
    THEN CHOOSE i \in 1..(Len(s) - Len(sub) + 1) :
            /\ SubSeq(s, i, i + Len(sub) - 1) = sub
            /\ \A j \in 1..(i - 1) : SubSeq(s, j, j + Len(sub) - 1) # sub
    ELSE 0

(***************************************************************************)
(* strconv.Atoi on the numerals of the model's vocabulary.                 *)
(***************************************************************************)
Numerals == [n \in {"0", "1", "+1", "5", "750", "800"} |->
    CASE n = "0" -> 0 [] n = "1" -> 1 [] n = "+1" -> 1 [] n = "5" -> 5
      [] n = "750" -> 750 [] n = "800" -> 800]

Atoi(value) ==
    IF Len(value) = 1 /\ value[1] \in DOMAIN Numerals
    THEN [err |-> FALSE, number |-> Numerals[value[1]]]
    ELSE [err |-> TRUE, number |-> 0]

(***************************************************************************)
(* The url package (miniflux.app/url): AbsoluteURL and Domain, on URLs of  *)
(* the shapes  scheme / / host / path,  / / host / path,  # fragment,      *)
(* / path  and  path.  A URL holding the atom %zz does not parse.          *)
(***************************************************************************)
SchemeAtoms ==
    {"apt:", "bitcoin:", "callto:", "dav:", "davs:", "ed2k:", "facetime:",
     "feed:", "ftp:", "geo:", "gopher:", "git:", "http:", "https:", "irc:",
     "irc6:", "ircs:", "itms:", "itms-apps:", "magnet:", "mailto:", "news:",
     "nntp:", "rtmp:", "sip:", "sips:", "skype:", "spotify:", "ssh:",
     "sftp:", "steam:", "svn:", "svn+ssh:", "tel:", "webcal:", "xmpp:",
     "javascript:", "data:image"}

ParseFails(u) == \E i \in 1..Len(u) : u[i] = "%zz"

IsAbs(u) == u # <<>> /\ Head(u) \in SchemeAtoms

\* Where the authority of u starts: after "scheme / /" or after a leading "/ /".
HostStart(u) ==
    IF Len(u) >= 3 /\ u[1] \in SchemeAtoms /\ u[2] = "/" /\ u[3] = "/" THEN 4
    ELSE IF Len(u) >= 2 /\ u[1] = "/" /\ u[2] = "/" THEN 3
    ELSE 0

RECURSIVE HostEnd(_, _)
HostEnd(u, i) ==
    IF i > Len(u) \/ u[i] \in {"/", "#"} THEN i - 1 ELSE HostEnd(u, i + 1)

Domain(websiteURL) ==
    IF ParseFails(websiteURL) THEN websiteURL
    ELSE IF HostStart(websiteURL) = 0 THEN <<>>
    ELSE SubSeq(websiteURL, HostStart(websiteURL),
                HostEnd(websiteURL, HostStart(websiteURL)))

RECURSIVE LastSlash(_, _)
LastSlash(u, i) ==
    IF i = 0 THEN 0 ELSE IF u[i] = "/" THEN i ELSE LastSlash(u, i - 1)

\* net/url ResolveReference of a reference that has no scheme and no authority.
ResolveReference(base, ref) ==
    IF ref = <<>> THEN base
    ELSE IF HostStart(base) = 0 THEN ref
    ELSE IF Head(ref) = "#" THEN base \o ref
    ELSE IF Head(ref) = "/"
         THEN SubSeq(base, 1, HostEnd(base, HostStart(base))) \o ref
    ELSE IF LastSlash(base, Len(base)) > HostEnd(base, HostStart(base))
         THEN SubSeq(base, 1, LastSlash(base, Len(base))) \o ref
    ELSE base \o <<"/">> \o ref

\* AbsoluteURL once a leading "//" has been given the https scheme.
AbsoluteOf(baseURL, u) ==
    IF ParseFails(u) THEN [err |-> TRUE, url |-> <<>>]
    ELSE IF IsAbs(u) THEN [err |-> FALSE, url |-> u]
    ELSE IF ParseFails(baseURL) THEN [err |-> TRUE, url |-> <<>>]
    ELSE [err |-> FALSE, url |-> ResolveReference(baseURL, u)]

AbsoluteURL(baseURL, input) ==
    AbsoluteOf(baseURL, IF HasPrefix(input, <<"/", "/">>) THEN <<"https:">> \o input
                        ELSE input)

\* config.Opts.InvidiousInstance(): the configured alternate instance host.
InvidiousInstance == <<"yewtu.be">>

(***************************************************************************)
(* The sanitizer's policy tables.                                          *)
(***************************************************************************)
tagAllowList ==
    [img        |-> <<"alt", "title", "src", "srcset", "sizes", "width", "height">>,
     picture    |-> <<>>,
     audio      |-> <<"src">>,
     video      |-> <<"poster", "height", "width", "src">>,
     source     |-> <<"src", "type", "srcset", "sizes", "media">>,
     dt         |-> <<"id">>,
     dd         |-> <<"id">>,
     dl         |-> <<"id">>,
     table      |-> <<>>,
     caption    |-> <<>>,
     thead      |-> <<>>,
     tfooter    |-> <<>>,
     tr         |-> <<>>,
     td         |-> <<"rowspan", "colspan">>,
     th         |-> <<"rowspan", "colspan">>,
     h1         |-> <<"id">>,
     h2         |-> <<"id">>,
     h3         |-> <<"id">>,
     h4         |-> <<"id">>,
     h5         |-> <<"id">>,
     h6         |-> <<"id">>,
     strong     |-> <<>>,
     em         |-> <<>>,
     code       |-> <<>>,
     pre        |-> <<>>,
     blockquote |-> <<>>,
     q          |-> <<"cite">>,
     p          |-> <<>>,
     ul         |-> <<"id">>,
     li         |-> <<"id">>,
     ol         |-> <<"id">>,
     br         |-> <<>>,
     del        |-> <<>>,
     a          |-> <<"href", "title", "id">>,
     figure     |-> <<>>,
     figcaption |-> <<>>,
     cite       |-> <<>>,
     time       |-> <<"datetime">>,
     abbr       |-> <<"title">>,
     acronym    |-> <<"title">>,
     wbr        |-> <<>>,
     dfn        |-> <<>>,
     sub        |-> <<>>,
     sup        |-> <<>>,
     var        |-> <<>>,
     samp       |-> <<>>,
     s          |-> <<>>,
     ins        |-> <<>>,
     kbd        |-> <<>>,
     rp         |-> <<>>,
     rt         |-> <<>>,
     rtc        |-> <<>>,
     ruby       |-> <<>>,
     iframe     |-> <<"width", "height", "frameborder", "src", "allowfullscreen">>]

requiredAttributes ==
    [a      |-> <<"href">>,
     iframe |-> <<"src">>,
     img    |-> <<"src">>,
     source |-> <<"src", "srcset">>]

inList(needle, haystack) ==
    \E i \in 1..Len(haystack) : haystack[i] = needle

isValidTag(tagName) == tagName \in DOMAIN tagAllowList

\* A filter that looks at the tag only, not at the attribute's name.
isValidAttributeAnyName(tagName, attributeName) == isValidTag(tagName)

isValidAttribute(tagName, attributeName) ==
    /\ tagName \in DOMAIN tagAllowList
    /\ inList(attributeName, tagAllowList[tagName])

isExternalResourceAttribute(attribute) ==
    attribute \in {"src", "href", "poster", "cite"}

isBlockedTag(tagName) == inList(tagName, <<"noscript", "script", "style">>)

\* A check that expects width first and height second.
isPixelTrackerOrdered(tagName, attributes) ==
    /\ tagName = "img"
    /\ Len(attributes) >= 2
    /\ attributes[1] = [Key |-> "width", Val |-> <<"1">>]
    /\ attributes[2] = [Key |-> "height", Val |-> <<"1">>]

isPixelTracker(tagName, attributes) ==
    /\ tagName = "img"
    /\ \E i \in 1..Len(attributes) :
          attributes[i].Key = "height" /\ attributes[i].Val = <<"1">>
    /\ \E i \in 1..Len(attributes) :
          attributes[i].Key = "width" /\ attributes[i].Val = <<"1">>

\* A rule that asks for nothing.
hasRequiredAttributesNone(tagName, attributes) == TRUE

hasRequiredAttributes(tagName, attributes) ==
    IF tagName \in DOMAIN requiredAttributes
    THEN \E i \in 1..Len(attributes) :
            inList(attributes[i], requiredAttributes[tagName])
    ELSE TRUE

hasValidURIScheme(src) ==
    \E prefix \in
        {<<"apt:">>, <<"bitcoin:">>, <<"callto:">>, <<"dav:">>, <<"davs:">>,
         <<"ed2k:", "/", "/">>, <<"facetime:", "/", "/">>, <<"feed:">>,
         <<"ftp:", "/", "/">>, <<"geo:">>, <<"gopher:", "/", "/">>,
         <<"git:", "/", "/">>, <<"http:", "/", "/">>, <<"https:", "/", "/">>,
         <<"irc:", "/", "/">>, <<"irc6:", "/", "/">>, <<"ircs:", "/", "/">>,
         <<"itms:", "/", "/">>, <<"itms-apps:", "/", "/">>, <<"magnet:">>,
         <<"mailto:">>, <<"news:">>, <<"nntp:">>, <<"rtmp:", "/", "/">>,
         <<"sip:">>, <<"sips:">>, <<"skype:">>, <<"spotify:">>,
         <<"ssh:", "/", "/">>, <<"sftp:", "/", "/">>, <<"steam:", "/", "/">>,
         <<"svn:", "/", "/">>, <<"svn+ssh:", "/", "/">>, <<"tel:">>,
         <<"webcal:", "/", "/">>, <<"xmpp:">>} :
        HasPrefix(src, prefix)

isBlockedResource(src) ==
    \E element \in
        {<<"feedsportal.com">>, <<"api.flattr.com">>, <<"stats.wordpress.com">>,
         <<"plus.google.com", "/", "share">>, <<"twitter.com", "/", "share">>,
         <<"feeds.feedburner.com">>} :
        Contains(src, element)

isValidIframeSource(baseURL, src) ==
    \/ Domain(baseURL) = Domain(src)
    \/ InvidiousInstance = Domain(src)
    \/ \E prefix \in
        {<<"/", "/", "www.youtube", ".com">>,
         <<"http:", "/", "/", "www.youtube", ".com">>,
         <<"https:", "/", "/", "www.youtube", ".com">>,
         <<"https:", "/", "/", "www.youtube", "-nocookie", ".com">>,
         <<"http:", "/", "/", "player.vimeo.com">>,
         <<"https:", "/", "/", "player.vimeo.com">>,
         <<"http:", "/", "/", "www.dailymotion.com">>,
         <<"https:", "/", "/", "www.dailymotion.com">>,
         <<"http:", "/", "/", "vk.com">>,
         <<"https:", "/", "/", "vk.com">>,
         <<"http:", "/", "/", "soundcloud.com">>,
         <<"https:", "/", "/", "soundcloud.com">>,
         <<"http:", "/", "/", "w.soundcloud.com">>,
         <<"https:", "/", "/", "w.soundcloud.com">>,
         <<"http:", "/", "/", "bandcamp.com">>,
         <<"https:", "/", "/", "bandcamp.com">>,
         <<"https:", "/", "/", "cdn.embedly.com">>,
         <<"https:", "/", "/", "player.bilibili.com">>} :
        HasPrefix(src, prefix)

\* youtubeEmbedRegex = //www\.youtube\.com/embed/(.*) : the leftmost match, with
\* the group running to the end of the link.
youtubeEmbedRegex == <<"/", "/", "www.youtube", ".com", "/", "embed", "/">>

rewriteIframeURL(link) ==
    IF Contains(link, youtubeEmbedRegex)
    THEN <<"https:", "/", "/", "www.youtube", "-nocookie", ".com", "/", "embed", "/">>
         \o SubSeq(link, IndexOf(link, youtubeEmbedRegex) + Len(youtubeEmbedRegex),
                   Len(link))
    ELSE link

isValidDataAttribute(value) ==
    \E prefix \in
        {<<"data:image", "/", "avif">>, <<"data:image", "/", "apng">>,
         <<"data:image", "/", "png">>, <<"data:image", "/", "svg">>,
         <<"data:image", "/", "svg", "+xml">>, <<"data:image", "/", "jpg">>,
         <<"data:image", "/", "jpeg">>, <<"data:image", "/", "gif">>,
         <<"data:image", "/", "webp">>} :
        HasPrefix(value, prefix)

isAnchor(tagName, attribute) ==
    tagName = "a" /\ attribute.Key = "href" /\ HasPrefix(attribute.Val, <<"#">>)

\* A check that takes any integer.
isInteger(value) == ~Atoi(value).err

isPositiveInteger(value) ==
    ~Atoi(value).err /\ Atoi(value).number > 0

getAttributeValue(name, attributes) ==
    IF \E i \in 1..Len(attributes) : attributes[i].Key = name
    THEN attributes[CHOOSE i \in 1..Len(attributes) :
            /\ attributes[i].Key = name
            /\ \A j \in 1..(i - 1) : attributes[j].Key # name].Val
    ELSE <<>>

getIntegerAttributeValue(name, attributes) ==
    Atoi(getAttributeValue(name, attributes)).number

getExtraAttributes(tagName) ==
    CASE tagName = "a" ->
            [names |-> <<"rel", "target", "referrerpolicy">>,
             html  |-> << <<"rel", "=", "\"", "noopener", " ", "noreferrer", "\"">>,
                          <<"target", "=", "\"", "_blank", "\"">>,
                          <<"referrerpolicy", "=", "\"", "no-referrer", "\"">> >>]
      [] tagName \in {"video", "audio"} ->
            [names |-> <<"controls">>, html |-> << <<"controls">> >>]
      [] tagName = "iframe" ->
            [names |-> <<"sandbox", "loading">>,
             html  |-> << <<"sandbox", "=", "\"", "allow-scripts", " ",
                            "allow-same-origin", " ", "allow-popups", "\"">>,
                          <<"loading", "=", "\"", "lazy", "\"">> >>]
      [] tagName = "img" ->
            [names |-> <<"loading">>,
             html  |-> << <<"loading", "=", "\"", "lazy", "\"">> >>]
      [] OTHER -> [names |-> <<>>, html |-> <<>>]

(***************************************************************************)
(* sanitizeSrcsetAttr.  A srcset value is a string of atoms: the atoms of  *)
(* a URL, then, after the atom " ", a descriptor of two atoms, the numeral *)
(* and the letter; candidates are set apart by the atom ",", which one     *)
(* space may follow.                                                       *)
(***************************************************************************)
\* strings.Split(s, sep) for a separator of one atom.
RECURSIVE Split(_, _)
Split(s, sep) ==
    IF ~Contains(s, <<sep>>) THEN <<s>>
    ELSE <<SubSeq(s, 1, IndexOf(s, <<sep>>) - 1)>>
         \o Split(SubSeq(s, IndexOf(s, <<sep>>) + 1, Len(s)), sep)

\* strings.TrimSpace
RECURSIVE TrimSpace(_)
TrimSpace(s) ==
    IF s = <<>> THEN s
    ELSE IF Head(s) = " " THEN TrimSpace(Tail(s))
    ELSE IF s[Len(s)] = " " THEN TrimSpace(SubSeq(s, 1, Len(s) - 1))
    ELSE s

\* splitSrcsetRegex.Split(value, -1), the expression being `,\s?`
RECURSIVE splitSrcset(_)
splitSrcset(value) ==
    IF ~Contains(value, <<",">>) THEN <<value>>
    ELSE <<SubSeq(value, 1, IndexOf(value, <<",">>) - 1)>>
         \o splitSrcset(SubSeq(value,
                IndexOf(value, <<",">>)
                + (IF /\ IndexOf(value, <<",">>) < Len(value)
                      /\ value[IndexOf(value, <<",">>) + 1] = " "
                   THEN 2 ELSE 1),
                Len(value)))

\* strconv.ParseFloat(s, 32) succeeds, on the numerals of the model.
ParseFloat(s) ==
    Len(s) = 1 /\ s[1] \in {"0", "1", "2", "+1", "-1", "1.5", "5", "750", "800"}

\* A check that takes any last letter.
isValidDescriptorOfAnyUnit(value) ==
    value # <<>> /\ ParseFloat(SubSeq(value, 1, Len(value) - 1))

isValidWidthOrDensityDescriptor(value) ==
    IF value = <<>> THEN FALSE
    ELSE IF value[Len(value)] # "w" /\ value[Len(value)] # "x" THEN FALSE
    ELSE ParseFloat(SubSeq(value, 1, Len(value) - 1))

\* The body of the loop over the raw sources: the sanitized source appended,
\* or nothing when the URL does not resolve.
sanitizedSource(baseURL, parts) ==
    IF AbsoluteURL(baseURL, parts[1]).err THEN <<>>
    ELSE IF Len(parts) = 2 /\ isValidWidthOrDensityDescriptor(parts[2])
    THEN << AbsoluteURL(baseURL, parts[1]).url \o <<" ">> \o parts[2] >>
    ELSE << AbsoluteURL(baseURL, parts[1]).url >>

RECURSIVE sanitizedSources(_, _)
sanitizedSources(baseURL, rawSources) ==
    IF rawSources = <<>> THEN <<>>
    ELSE sanitizedSource(baseURL, Split(TrimSpace(Head(rawSources)), " "))
         \o sanitizedSources(baseURL, Tail(rawSources))

sanitizeSrcsetAttr(baseURL, value) ==
    Join(sanitizedSources(baseURL, splitSrcset(value)), <<",", " ">>)

(***************************************************************************)
(* sanitizeAttributes.  externalResource is the branch taken for src,      *)
(* href, poster and cite (resolvedResource its last case, on the result of *)
(* AbsoluteURL); sanitizeAttribute is the body of the loop over the        *)
(* attributes.  They return whether the attribute is kept, the value to    *)
(* write and whether it made the element an in-page anchor link.           *)
(***************************************************************************)
\* A resolution that checks neither the scheme nor the block-list.
resolvedResourceUnchecked(abs, value) ==
    [keep |-> ~abs.err, value |-> abs.url, anchor |-> FALSE]

resolvedResource(abs, value) ==
    IF abs.err
    THEN [keep |-> FALSE, value |-> value, anchor |-> FALSE]
    ELSE IF ~hasValidURIScheme(abs.url) \/ isBlockedResource(abs.url)
    THEN [keep |-> FALSE, value |-> abs.url, anchor |-> FALSE]
    ELSE [keep |-> TRUE, value |-> abs.url, anchor |-> FALSE]

externalResource(baseURL, tagName, attribute, value) ==
    IF tagName = "iframe"
    THEN IF isValidIframeSource(baseURL, attribute.Val)
         THEN [keep |-> TRUE, value |-> rewriteIframeURL(attribute.Val), anchor |-> FALSE]
         ELSE [keep |-> FALSE, value |-> value, anchor |-> FALSE]
    ELSE IF tagName = "img" /\ attribute.Key = "src" /\ isValidDataAttribute(attribute.Val)
    THEN [keep |-> TRUE, value |-> attribute.Val, anchor |-> FALSE]
    ELSE IF isAnchor("a", attribute)
    THEN [keep |-> TRUE, value |-> attribute.Val, anchor |-> TRUE]
    ELSE resolvedResource(AbsoluteURL(baseURL, value), value)

\* One turn of the loop over the attributes: whether the attribute is kept, and
\* with which value.
sanitizeAttribute(baseURL, tagName, attribute, isImageLargerThanLayout) ==
    LET value == IF tagName \in {"img", "source"} /\ attribute.Key = "srcset"
                 THEN sanitizeSrcsetAttr(baseURL, attribute.Val)
                 ELSE attribute.Val
        drop  == [keep |-> FALSE, value |-> value, anchor |-> FALSE]
    IN  IF ~isValidAttribute(tagName, attribute.Key) THEN drop
        ELSE IF /\ tagName = "img"
                /\ attribute.Key \in {"width", "height"}
                /\ (~isPositiveInteger(value) \/ isImageLargerThanLayout)
        THEN drop
        ELSE IF isExternalResourceAttribute(attribute.Key)
        THEN externalResource(baseURL, tagName, attribute, value)
        ELSE [keep |-> TRUE, value |-> value, anchor |-> FALSE]

\* fmt.Sprintf(`%s="%s"`, attribute.Key, html.EscapeString(value))
htmlAttr(key, value) ==
    <<key, "=", "\"">> \o EscapeString(value) \o <<"\"">>

\* The appends at the end of the loop body, for an attribute that is kept.
appendAttribute(acc, attribute, r) ==
    IF r.keep
    THEN [attrNames    |-> Append(acc.attrNames, attribute.Key),
          htmlAttrs    |-> Append(acc.htmlAttrs, htmlAttr(attribute.Key, r.value)),
          isAnchorLink |-> acc.isAnchorLink \/ r.anchor]
    ELSE acc

RECURSIVE sanitizeLoop(_, _, _, _, _)
sanitizeLoop(baseURL, tagName, attributes, isImageLargerThanLayout, acc) ==
    IF attributes = <<>> THEN acc
    ELSE sanitizeLoop(baseURL, tagName, Tail(attributes), isImageLargerThanLayout,
            appendAttribute(acc, Head(attributes),
                sanitizeAttribute(baseURL, tagName, Head(attributes),
                                  isImageLargerThanLayout)))

\* The extra attributes are appended unless the element is an in-page anchor link.
withExtraAttributes(loop, extra) ==
    IF loop.isAnchorLink
    THEN [attrNames |-> loop.attrNames, html |-> Join(loop.htmlAttrs, <<" ">>)]
    ELSE [attrNames |-> loop.attrNames \o extra.names,
          html      |-> Join(loop.htmlAttrs \o extra.html, <<" ">>)]

sanitizeAttributes(baseURL, tagName, attributes) ==
    withExtraAttributes(
        sanitizeLoop(baseURL, tagName, attributes,
            tagName = "img" /\ getIntegerAttributeValue("width", attributes) > 750,
            [attrNames |-> <<>>, htmlAttrs |-> <<>>, isAnchorLink |-> FALSE]),
        getExtraAttributes(tagName))

(***************************************************************************)
(* Sanitize, one token at a time.  A token is [Type, Tag, Data, Attr]:     *)
(* Tag is token.DataAtom.String() of a tag token, Data the text of a text  *)
(* token, Attr the sequence of [Key, Val].  The state st of the loop is    *)
(* [buffer, tagStack, parentTag, blacklistedTagDepth].                     *)
(***************************************************************************)
\* A text case that also drops the text whose parent is not allow-listed.
TextTokenOfListedParent(st, token) ==
    IF st.blacklistedTagDepth > 0 THEN st
    ELSE IF st.parentTag = "iframe" THEN st
    ELSE IF st.parentTag # "" /\ ~isValidTag(st.parentTag) THEN st
    ELSE [st EXCEPT !.buffer = @ \o EscapeString(token.Data)]

\* The text case.
TextToken(st, token) ==
    IF st.blacklistedTagDepth > 0 THEN st
    ELSE IF st.parentTag = "iframe" THEN st
    ELSE [st EXCEPT !.buffer = @ \o EscapeString(token.Data)]

\* buffer.WriteString of a start tag (close = ">") or a self-closing tag
\* (close = "/>"), with or without attributes.
writeTag(tagName, attrs, close) ==
    IF Len(attrs.attrNames) > 0
    THEN <<"<", tagName, " ">> \o attrs.html \o close
    ELSE <<"<", tagName>> \o close

\* The start tag case, attrs being the result of sanitizeAttributes.
startTag(st, tagName, attributes, attrs) ==
    IF ~isPixelTracker(tagName, attributes) /\ isValidTag(tagName)
    THEN IF hasRequiredAttributes(tagName, attrs.attrNames)
         THEN [st EXCEPT !.parentTag = tagName,
                         !.buffer = @ \o writeTag(tagName, attrs, <<">">>),
                         !.tagStack = Append(@, tagName)]
         ELSE [st EXCEPT !.parentTag = tagName]
    ELSE IF isBlockedTag(tagName)
    THEN [st EXCEPT !.parentTag = tagName, !.blacklistedTagDepth = @ + 1]
    ELSE [st EXCEPT !.parentTag = tagName]

StartTagToken(st, baseURL, token) ==
    startTag(st, token.Tag, token.Attr,
             sanitizeAttributes(baseURL, token.Tag, token.Attr))

EndTagToken(st, token) ==
    IF isValidTag(token.Tag) /\ inList(token.Tag, st.tagStack)
    THEN [st EXCEPT !.buffer = @ \o <<"<", "/", token.Tag, ">">>]
    ELSE IF isBlockedTag(token.Tag)
    THEN [st EXCEPT !.blacklistedTagDepth = @ - 1]
    ELSE st

\* The self-closing tag case, attrs being the result of sanitizeAttributes.
selfClosingTag(st, tagName, attributes, attrs) ==
    IF ~isPixelTracker(tagName, attributes) /\ isValidTag(tagName)
    THEN IF hasRequiredAttributes(tagName, attrs.attrNames)
         THEN [st EXCEPT !.buffer = @ \o writeTag(tagName, attrs, <<"/", ">">>)]
         ELSE st
    ELSE st

SelfClosingTagToken(st, baseURL, token) ==
    selfClosingTag(st, token.Tag, token.Attr,
                   sanitizeAttributes(baseURL, token.Tag, token.Attr))

\* The switch on token.Type; a comment or doctype token matches no case.
SanitizeToken(st, baseURL, token) ==
    CASE token.Type = "Text"        -> TextToken(st, token)
      [] token.Type = "StartTag"    -> StartTagToken(st, baseURL, token)
      [] token.Type = "EndTag"      -> EndTagToken(st, token)
      [] token.Type = "SelfClosing" -> SelfClosingTagToken(st, baseURL, token)
      [] OTHER                      -> st

\* A return that hands out the buffer whatever the error.
SanitizeReturnPartial(st, err) == st.buffer

\* The value returned when tokenizer.Next() yields the error token.
SanitizeReturn(st, err) ==
    IF err = "EOF" THEN st.buffer ELSE <<>>

SanitizeStart ==
    [buffer |-> <<>>, tagStack |-> <<>>, parentTag |-> "", blacklistedTagDepth |-> 0]

RECURSIVE SanitizeLoop(_, _, _)
SanitizeLoop(st, baseURL, tokens) ==
    IF tokens = <<>> THEN st
    ELSE SanitizeLoop(SanitizeToken(st, baseURL, Head(tokens)), baseURL, Tail(tokens))

(***************************************************************************)
(* The tokenizer (golang.org/x/net/html) on an atom string: text up to the *)
(* next tag, start tags with their attributes, end tags, self-closing      *)
(* tags, and the raw text that follows the start tag of a raw-text         *)
(* element up to its end tag.  Text and attribute values are unescaped,    *)
(* raw text is not (except in textarea and title).                         *)
(***************************************************************************)
Special == {"<", ">", "/", "=", "\"", " ", "&", "'", "#"}

RawTags == {"iframe", "noembed", "noframes", "noscript", "plaintext", "script",
            "style", "textarea", "title", "xmp"}

Token(type, tag, data, attr) ==
    [Type |-> type, Tag |-> tag, Data |-> data, Attr |-> attr]

StartTagAt(s, j) ==
    j + 1 <= Len(s) /\ s[j] = "<" /\ s[j + 1] \notin Special

EndTagAt(s, j) ==
    j + 2 <= Len(s) /\ s[j] = "<" /\ s[j + 1] = "/" /\ s[j + 2] \notin Special

RECURSIVE TextEnd(_, _)
TextEnd(s, j) ==
    IF j > Len(s) \/ StartTagAt(s, j) \/ EndTagAt(s, j) THEN j - 1
    ELSE TextEnd(s, j + 1)

RECURSIVE RawEnd(_, _, _)
RawEnd(s, j, rawTag) ==
    IF j > Len(s) \/ (EndTagAt(s, j) /\ s[j + 2] = rawTag) THEN j - 1
    ELSE RawEnd(s, j + 1, rawTag)

RECURSIVE IndexFrom(_, _, _)
IndexFrom(s, j, c) ==
    IF j > Len(s) \/ s[j] = c THEN j ELSE IndexFrom(s, j + 1, c)

\* The attributes of a tag from position j on: [attr, next, self, ok], next the
\* position after the tag's ">", ok FALSE when the input ends inside the tag.
RECURSIVE ReadAttrs(_, _)
ReadAttrs(s, j) ==
    IF j > Len(s) THEN [attr |-> <<>>, next |-> j, self |-> FALSE, ok |-> FALSE]
    ELSE IF s[j] = ">" THEN [attr |-> <<>>, next |-> j + 1, self |-> FALSE, ok |-> TRUE]
    ELSE IF s[j] = "/" /\ j < Len(s) /\ s[j + 1] = ">"
    THEN [attr |-> <<>>, next |-> j + 2, self |-> TRUE, ok |-> TRUE]
    ELSE IF s[j] \in {" ", "/"} THEN ReadAttrs(s, j + 1)
    ELSE IF j + 2 <= Len(s) /\ s[j + 1] = "=" /\ s[j + 2] = "\""
    THEN LET q    == IndexFrom(s, j + 3, "\"")
             rest == ReadAttrs(s, q + 1)
         IN  [rest EXCEPT !.attr =
                <<[Key |-> s[j], Val |-> Unescape(SubSeq(s, j + 3, q - 1))]>> \o @]
    ELSE LET rest == ReadAttrs(s, j + 1)
         IN  [rest EXCEPT !.attr = <<[Key |-> s[j], Val |-> <<>>]>> \o @]

RECURSIVE Tokens(_, _, _)
Tokens(s, i, rawTag) ==
    IF i > Len(s) THEN <<>>
    ELSE IF rawTag # ""
    THEN LET e    == RawEnd(s, i, rawTag)
             data == IF rawTag \in {"textarea", "title"}
                     THEN Unescape(SubSeq(s, i, e)) ELSE SubSeq(s, i, e)
         IN  (IF e >= i THEN <<Token("Text", "", data, <<>>)>> ELSE <<>>)
             \o Tokens(s, e + 1, "")
    ELSE IF EndTagAt(s, i)
    THEN LET close == IndexFrom(s, i + 3, ">")
         IN  IF close > Len(s) THEN <<>>
             ELSE <<Token("EndTag", s[i + 2], <<>>, <<>>)>> \o Tokens(s, close + 1, "")
    ELSE IF StartTagAt(s, i)
    THEN LET r == ReadAttrs(s, i + 2)
         IN  IF ~r.ok THEN <<>>
             ELSE <<Token(IF r.self THEN "SelfClosing" ELSE "StartTag",
                          s[i + 1], <<>>, r.attr)>>
                  \o Tokens(s, r.next, IF s[i + 1] \in RawTags THEN s[i + 1] ELSE "")
    ELSE LET e == TextEnd(s, i + 1)
         IN  <<Token("Text", "", Unescape(SubSeq(s, i, e)), <<>>)>>
             \o Tokens(s, e + 1, "")

Tokenize(input) == Tokens(input, 1, "")

\* Sanitize(baseURL, input) on an input that is read to its end.
Sanitize(baseURL, input) ==
    SanitizeReturn(SanitizeLoop(SanitizeStart, baseURL, Tokenize(input)), "EOF")

(***************************************************************************)
(* The inputs of the model: base URLs, attribute values and tokens.        *)
(***************************************************************************)
BaseURLs ==
    {<<"https:", "/", "/", "example.org", "/">>,
     <<"http:", "/", "/", "blog.example.net", "/", "posts", "/">>}

uSame     == <<"https:", "/", "/", "example.org", "/", "x">>
uEvil     == <<"https:", "/", "/", "evil.example.com", "/", "x">>
uRel      == <<"x">>
uProtoRel == <<"/", "/", "cdn.example.com", "/", "x">>
uJs       == <<"javascript:", "alert(1)">>
uBlocked  == <<"https:", "/", "/", "feedsportal.com", "/", "x">>
uBad      == <<"%zz">>
uData     == <<"data:image", "/", "png", ";base64,AAAA">>
uFrag     == <<"#", "top">>
uEmbed    == <<"/", "/", "www.youtube", ".com", "/", "embed", "/", "v">>
uLookalike == <<"https:", "/", "/", "www.youtube", ".com", ".evil.example.com", "/", "x">>
uNested   == <<"https:", "/", "/", "www.youtube", ".com", "/", "embed", "/", "a",
               "/", "/", "www.youtube", ".com", "/", "embed", "/", "b">>
uInvidious == <<"https:", "/", "/", "yewtu.be", "/", "embed", "/", "v">>

KV(k, v) == [Key |-> k, Val |-> v]

AnchorAttrs ==
    {<<KV("title", <<"\"", "t">>)>>,
     <<KV("href", uSame), KV("onclick", <<"x">>)>>}
    \cup {<<KV("href", u)>> : u \in {uSame, uRel, uProtoRel, uJs, uBlocked, uBad, uFrag}}

ImgAttrs ==
    {<<KV("alt", <<"t">>)>>,
     <<KV("width", <<"1">>), KV("height", <<"1">>)>>,
     <<KV("src", uSame), KV("width", <<"1">>), KV("height", <<"1">>)>>,
     <<KV("height", <<"1">>), KV("alt", <<"t">>), KV("src", uSame), KV("width", <<"1">>)>>,
     <<KV("src", uSame), KV("width", <<"800">>), KV("height", <<"5">>)>>,
     <<KV("src", uSame), KV("width", <<"5">>), KV("height", <<"x">>)>>,
     <<KV("src", uSame), KV("width", <<"+1">>), KV("height", <<"+1">>)>>}
    \cup {<<KV("src", u)>> : u \in {uSame, uData, uJs}}

SelfClosingImgAttrs ==
    {<<KV("alt", <<"t">>)>>,
     <<KV("src", uSame)>>,
     <<KV("width", <<"1">>), KV("src", uSame), KV("height", <<"1">>)>>}

IframeAttrs ==
    {<<KV("src", u)>> :
        u \in {uSame, uEvil, uRel, uEmbed, uLookalike, uNested, uInvidious}}
    \cup {<<KV("width", <<"5">>)>>}

AttrTokens ==
    {Token("StartTag", "a", <<>>, at) : at \in AnchorAttrs}
    \cup {Token("StartTag", "img", <<>>, at) : at \in ImgAttrs}
    \cup {Token("SelfClosing", "img", <<>>, at) : at \in SelfClosingImgAttrs}
    \cup {Token("StartTag", "iframe", <<>>, at) : at \in IframeAttrs}
    \cup {Token("StartTag", "p", <<>>, <<KV("onclick", <<"x">>)>>),
          Token("StartTag", "q", <<>>, <<KV("cite", uRel)>>),
          Token("StartTag", "video", <<>>, <<KV("src", uSame), KV("poster", uJs)>>),
          Token("SelfClosing", "source", <<>>, <<KV("src", uRel)>>),
          Token("SelfClosing", "source", <<>>, <<KV("type", <<"t">>)>>)}

\* The elements sanitized one by one: those above, anchors and images with
\* an attribute given twice, audio and video, and img and source elements with
\* a srcset of up to MaxCandidates candidates.
MaxCandidates == 2

imageCandidate(u, descriptor) ==
    IF descriptor = <<>> THEN u ELSE u \o <<" ">> \o descriptor

ImageCandidates ==
    {imageCandidate(uRel, d) : d \in {<<>>, <<"2", "x">>, <<"-1", "w">>, <<"2", "h">>, <<"x">>}}
    \cup {imageCandidate(uSame, d) : d \in {<<"0", "x">>, <<"1.5", "x">>, <<"800", "w">>}}
    \cup {imageCandidate(uBad, <<"2", "x">>), uJs, uBlocked, uProtoRel,
          uRel \o <<" ", "1", "x", " ", "2", "x">>}

SrcsetValues ==
    {Join(c, <<",", " ">>) :
        c \in UNION {[1..n -> ImageCandidates] : n \in 1..MaxCandidates}}
    \cup {uRel \o <<",">> \o uSame, <<>>}

ElementTokens ==
    AttrTokens
    \cup {Token("StartTag", "img", <<>>, <<KV("src", uSame), KV("srcset", v)>>) :
            v \in SrcsetValues}
    \cup {Token("SelfClosing", "source", <<>>, <<KV("srcset", v)>>) :
            v \in SrcsetValues}
    \cup {Token("StartTag", "a", <<>>, at) :
            at \in {<<KV("href", uFrag), KV("title", <<"t">>)>>,
                     <<KV("href", uSame), KV("href", uFrag)>>,
                     <<KV("href", uFrag), KV("href", uSame)>>}}
    \cup {Token("StartTag", "img", <<>>, at) :
            at \in {<<KV("src", uSame), KV("width", <<"1">>), KV("width", <<"800">>)>>,
                     <<KV("src", uSame), KV("width", <<"800">>), KV("width", <<"1">>)>>,
                     <<KV("src", uSame), KV("height", <<"0">>), KV("width", <<"750">>)>>}}
    \cup {Token("StartTag", tag, <<>>, <<KV("src", u)>>) :
            tag \in {"video", "audio"}, u \in {uSame, uJs}}
    \cup {Token("StartTag", "video", <<>>, <<KV("width", <<"800">>), KV("height", <<"x">>)>>)}

PlainTokens ==
    {Token("StartTag", tag, <<>>, <<>>) : tag \in {"p", "div", "script"}}
    \cup {Token("EndTag", tag, <<>>, <<>>) : tag \in {"p", "a", "iframe", "script"}}
    \cup {Token("Text", "", data, <<>>) : data \in {<<"hi">>, <<"<", "&", "lt;">>}}

RawText == {<<"alert(1)">>, <<"<", "p", ">">>}

NoToken == Token("", "", <<>>, <<>>)

(***************************************************************************)
(* Sanitize as a state machine: one action per token type the tokenizer    *)
(* hands to the loop.  rawTag and rawTextDone are the tokenizer's: after   *)
(* the start tag of a raw-text element it yields that element's raw text   *)
(* (if any) and then its end tag (if any).  token and emitted record the   *)
(* token handled last and what handling it wrote.                          *)
(***************************************************************************)
VARIABLES baseURL, buffer, tagStack, parentTag, blacklistedTagDepth,
          rawTag, rawTextDone, token, emitted, read, attrRead, pc, err, result

\* The fetcher's package state and its callers (see makeClient below).
VARIABLES clientCache, cacheMutex, clients, callers, returned, calls

\* The feeds table, the batch builder and the batch operation in progress (see
\* the storage section below).
VARIABLES feeds, pollingParsingErrorLimit, b, call, spc, queue, drawn, jobs,
          batchErr, failure

\* The job handed to feedRefreshProbability and what it returned.
VARIABLES candidate, probability, ppc

\* The request builders, their header maps and the call made last (see the
\* request builder below).
VARIABLES headerMaps, builders, rcall, rcalls, proxyEnv

\* The entries of the feeds and the run of rewriteEntries (see below).
VARIABLES entryObjects, feedEntries, script, safeEntries, entriesByHash,
          filteredEntries, ridx, rpc, rerr, rbefore

sanVars == <<baseURL, buffer, tagStack, parentTag, blacklistedTagDepth,
             rawTag, rawTextDone, token, emitted, read, attrRead, pc, err, result>>

St == [buffer |-> buffer, tagStack |-> tagStack, parentTag |-> parentTag,
       blacklistedTagDepth |-> blacklistedTagDepth]

clientVars == <<clientCache, cacheMutex, clients, callers, returned, calls>>

storageVars == <<feeds, pollingParsingErrorLimit, b, call, spc, queue, drawn, jobs,
                 batchErr, failure>>

probabilityVars == <<candidate, probability, ppc>>

builderVars == <<headerMaps, builders, rcall, rcalls, proxyEnv>>

rewriteVars == <<entryObjects, feedEntries, script, safeEntries, entriesByHash,
                 filteredEntries, ridx, rpc, rerr, rbefore>>

vars == <<sanVars, clientVars, storageVars, probabilityVars, builderVars,
          rewriteVars>>

SanitizeStartState ==
    /\ buffer = SanitizeStart.buffer
    /\ tagStack = SanitizeStart.tagStack
    /\ parentTag = SanitizeStart.parentTag
    /\ blacklistedTagDepth = SanitizeStart.blacklistedTagDepth
    /\ rawTag = ""
    /\ rawTextDone = FALSE
    /\ token = NoToken
    /\ emitted = <<>>
    /\ read = 0
    /\ attrRead = 0
    /\ pc = "run"
    /\ err = ""
    /\ result = <<>>

\* The loop body on token t.
Store(st, t) ==
    /\ buffer' = st.buffer
    /\ tagStack' = st.tagStack
    /\ parentTag' = st.parentTag
    /\ blacklistedTagDepth' = st.blacklistedTagDepth
    /\ emitted' = SubSeq(st.buffer, Len(buffer) + 1, Len(st.buffer))
    /\ token' = t
    /\ read' = read + 1
    /\ attrRead' = attrRead + (IF t.Attr # <<>> THEN 1 ELSE 0)
    /\ UNCHANGED <<baseURL, pc, err, result>>
    /\ UNCHANGED <<clientVars, storageVars, probabilityVars, builderVars, rewriteVars>>

Handle(t) == Store(SanitizeToken(St, baseURL, t), t)

CanRead(t) ==
    /\ pc = "run"
    /\ read < MaxTokens
    /\ t.Attr # <<>> => attrRead < MaxAttrTokens

NextTextToken ==
    \/ /\ rawTag = ""
       /\ \E t \in PlainTokens :
            /\ t.Type = "Text"
            /\ CanRead(t)
            /\ Handle(t)
       /\ UNCHANGED <<rawTag, rawTextDone>>
    \/ /\ rawTag # ""
       /\ ~rawTextDone
       /\ \E data \in RawText :
            /\ CanRead(Token("Text", "", data, <<>>))
            /\ Handle(Token("Text", "", data, <<>>))
       /\ rawTextDone' = TRUE
       /\ UNCHANGED rawTag

NextStartTagToken ==
    /\ rawTag = ""
    /\ \E t \in PlainTokens \cup AttrTokens :
         /\ t.Type = "StartTag"
         /\ CanRead(t)
         /\ Handle(t)
         /\ rawTag' = IF t.Tag \in RawTags THEN t.Tag ELSE ""
    /\ rawTextDone' = FALSE

NextEndTagToken ==
    /\ \E t \in PlainTokens :
         /\ t.Type = "EndTag"
         /\ rawTag # "" => t.Tag = rawTag
         /\ CanRead(t)
         /\ Handle(t)
    /\ rawTag' = ""
    /\ rawTextDone' = FALSE

NextSelfClosingTagToken ==
    /\ rawTag = ""
    /\ \E t \in PlainTokens \cup AttrTokens :
         /\ t.Type = "SelfClosing"
         /\ CanRead(t)
         /\ Handle(t)
    /\ UNCHANGED <<rawTag, rawTextDone>>

\* tokenizer.Next() == html.ErrorToken: the end of the input, or another error.
NextErrorToken ==
    /\ pc = "run"
    /\ \E e \in {"EOF", "ErrBufferExceeded"} :
         /\ err' = e
         /\ result' = SanitizeReturn(St, e)
    /\ pc' = "done"
    /\ UNCHANGED <<baseURL, buffer, tagStack, parentTag, blacklistedTagDepth,
                   rawTag, rawTextDone, token, emitted, read, attrRead>>
    /\ UNCHANGED <<clientVars, storageVars, probabilityVars, builderVars, rewriteVars>>

SanitizeNext ==
    \/ NextTextToken
    \/ NextStartTagToken
    \/ NextEndTagToken
    \/ NextSelfClosingTagToken
    \/ NextErrorToken

\* Sanitize on an input of one element: the loop body on its token.
SanitizeElement ==
    /\ read = 0
    /\ rawTag = ""
    /\ \E t \in ElementTokens :
         /\ CanRead(t)
         /\ Handle(t)
         /\ rawTag' = IF t.Tag \in RawTags /\ t.Type = "StartTag" THEN t.Tag ELSE ""
    /\ rawTextDone' = FALSE

ElementNext ==
    \/ SanitizeElement
    \/ NextErrorToken

(***************************************************************************)
(* The fetcher's client cache.  A clientConfig value is the key of         *)
(* clientCache; makeClient looks the key up and, on a miss, builds a       *)
(* client and stores it, all between cacheMutex.Lock() and the deferred    *)
(* cacheMutex.Unlock().  Clients live in the heap clients and are known by *)
(* their position in it; 0 is the nil client.                              *)
(***************************************************************************)
MaxCalls == 3

defaultHTTPClientTimeout == 20

Callers == {"w1", "w2"}

\* NewRequestBuilder().clientConfig
defaultClientConfig ==
    [ignoreTLSErrors  |-> FALSE,
     disableHTTP2     |-> FALSE,
     useClientProxy   |-> FALSE,
     withoutRedirects |-> FALSE,
     clientProxyURL   |-> "",
     clientTimeout    |-> defaultHTTPClientTimeout]

\* The default configuration and the configurations one setter away from it.
ClientConfigs ==
    {defaultClientConfig,
     [defaultClientConfig EXCEPT !.ignoreTLSErrors = TRUE],
     [defaultClientConfig EXCEPT !.disableHTTP2 = TRUE],
     [defaultClientConfig EXCEPT !.useClientProxy = TRUE],
     [defaultClientConfig EXCEPT !.withoutRedirects = TRUE],
     [defaultClientConfig EXCEPT !.clientProxyURL = "http://proxy.example:3128"],
     [defaultClientConfig EXCEPT !.clientTimeout = 30]}

\* Builders: a header set (pairs of key and value) and a configuration.
RequestBuilders ==
    {[headers |-> {}, clientConfig |-> cfg] : cfg \in ClientConfigs}
    \cup {[headers |-> {<<"User-Agent", "reader">>}, clientConfig |-> defaultClientConfig]}

\* A key that leaves the timeout out.
clientConfigWithoutTimeout(cfg) == [cfg EXCEPT !.clientTimeout = 0]

\* The key of clientCache: the clientConfig value, compared field by field.
clientConfig(cfg) == cfg

\* A lock that never waits.
LockWithoutWaiting(mutex) == TRUE

\* cacheMutex.Lock() goes through when no caller holds the mutex.
Lock(mutex) == mutex = ""

\* url.Parse(cfg.clientProxyURL) fails.
ProxyParseFails(proxyURL) == proxyURL = "%zz"

\* A transport that takes the proxy URL whatever the flag.
newTransportWithProxySet(cfg) ==
    [InsecureSkipVerify |-> cfg.ignoreTLSErrors,
     ForceAttemptHTTP2  |-> ~cfg.disableHTTP2,
     TLSNextProto       |-> IF cfg.disableHTTP2 THEN "empty" ELSE "nil",
     Proxy              |-> IF /\ cfg.clientProxyURL # ""
                               /\ ~ProxyParseFails(cfg.clientProxyURL)
                            THEN cfg.clientProxyURL
                            ELSE "ProxyFromEnvironment"]

\* The transport built on a miss.
newTransport(cfg) ==
    [InsecureSkipVerify |-> cfg.ignoreTLSErrors,
     ForceAttemptHTTP2  |-> ~cfg.disableHTTP2,
     TLSNextProto       |-> IF cfg.disableHTTP2 THEN "empty" ELSE "nil",
     Proxy              |-> IF /\ cfg.useClientProxy
                               /\ cfg.clientProxyURL # ""
                               /\ ~ProxyParseFails(cfg.clientProxyURL)
                            THEN cfg.clientProxyURL
                            ELSE "ProxyFromEnvironment"]

\* A client built with the default timeout whatever the configuration.
newClientWithDefaultTimeout(cfg) ==
    [Timeout       |-> defaultHTTPClientTimeout,
     CheckRedirect |-> IF cfg.withoutRedirects THEN "ErrUseLastResponse" ELSE "nil",
     Transport     |-> newTransport(cfg)]

\* The client built on a miss; Timeout is in seconds.
newClient(cfg) ==
    [Timeout       |-> cfg.clientTimeout,
     CheckRedirect |-> IF cfg.withoutRedirects THEN "ErrUseLastResponse" ELSE "nil",
     Transport     |-> newTransport(cfg)]

\* clientCache[key] = client
storeClient(cache, key, client) ==
    [k \in DOMAIN cache \cup {key} |-> IF k = key THEN client ELSE cache[k]]

ClientStartState ==
    /\ clientCache = [k \in {} |-> 0]
    /\ cacheMutex = ""
    /\ clients = <<>>
    /\ callers = [p \in Callers |->
                    [pc |-> "idle", headers |-> {}, cfg |-> defaultClientConfig,
                     client |-> 0]]
    /\ returned = {}
    /\ calls = 0

\* ExecuteRequest on builder r: the call of makeClient(r.clientConfig).
ExecuteRequest(p) ==
    /\ callers[p].pc = "idle"
    /\ calls < MaxCalls
    /\ \E r \in RequestBuilders :
         callers' = [callers EXCEPT ![p] =
            [pc |-> "Lock", headers |-> r.headers, cfg |-> r.clientConfig,
             client |-> 0]]
    /\ calls' = calls + 1
    /\ UNCHANGED <<clientCache, cacheMutex, clients, returned>>
    /\ UNCHANGED <<sanVars, storageVars, probabilityVars, builderVars, rewriteVars>>

\* cacheMutex.Lock()
LockCache(p) ==
    /\ callers[p].pc = "Lock"
    /\ Lock(cacheMutex)
    /\ cacheMutex' = p
    /\ callers' = [callers EXCEPT ![p].pc = "Lookup"]
    /\ UNCHANGED <<clientCache, clients, returned, calls>>
    /\ UNCHANGED <<sanVars, storageVars, probabilityVars, builderVars, rewriteVars>>

\* if client, ok := clientCache[cfg]; ok { return client }
LookupClient(p) ==
    /\ callers[p].pc = "Lookup"
    /\ callers' = [callers EXCEPT ![p] =
         IF clientConfig(callers[p].cfg) \in DOMAIN clientCache
         THEN [@ EXCEPT !.client = clientCache[clientConfig(callers[p].cfg)],
                        !.pc = "Return"]
         ELSE [@ EXCEPT !.pc = "New"]]
    /\ UNCHANGED <<clientCache, cacheMutex, clients, returned, calls>>
    /\ UNCHANGED <<sanVars, storageVars, probabilityVars, builderVars, rewriteVars>>

\* The construction of the transport and of the client.
NewClient(p) ==
    /\ callers[p].pc = "New"
    /\ clients' = Append(clients, [cfg |-> callers[p].cfg,
                                   client |-> newClient(callers[p].cfg)])
    /\ callers' = [callers EXCEPT ![p].client = Len(clients) + 1, ![p].pc = "Store"]
    /\ UNCHANGED <<clientCache, cacheMutex, returned, calls>>
    /\ UNCHANGED <<sanVars, storageVars, probabilityVars, builderVars, rewriteVars>>

\* clientCache[cfg] = client
StoreClient(p) ==
    /\ callers[p].pc = "Store"
    /\ clientCache' = storeClient(clientCache, clientConfig(callers[p].cfg),
                                  callers[p].client)
    /\ callers' = [callers EXCEPT ![p].pc = "Return"]
    /\ UNCHANGED <<cacheMutex, clients, returned, calls>>
    /\ UNCHANGED <<sanVars, storageVars, probabilityVars, builderVars, rewriteVars>>

\* return client, with the deferred cacheMutex.Unlock()
ReturnClient(p) ==
    /\ callers[p].pc = "Return"
    /\ cacheMutex' = ""
    /\ returned' = returned \cup
         {[caller |-> p, headers |-> callers[p].headers, cfg |-> callers[p].cfg,
           client |-> callers[p].client]}
    /\ callers' = [callers EXCEPT ![p].pc = "idle"]
    /\ UNCHANGED <<clientCache, clients, calls>>
    /\ UNCHANGED <<sanVars, storageVars, probabilityVars, builderVars, rewriteVars>>

ClientNext ==
    \E p \in Callers :
        \/ ExecuteRequest(p)
        \/ LockCache(p)
        \/ LookupClient(p)
        \/ NewClient(p)
        \/ StoreClient(p)
        \/ ReturnClient(p)

(***************************************************************************)
(* The request builder (fetcher).  http.Header is a map, so a builder      *)
(* holds a reference to its headers: headerMaps is the heap of header      *)
(* maps, builders the heap of RequestBuilder values, each known by its     *)
(* position.  A header map is a function from canonical keys to the value  *)
(* Set left there.  rcall records the call made last, proxyEnv the proxy   *)
(* the process environment names ("" for none).                            *)
(***************************************************************************)
MaxBuilders == 2
MaxBuilderCalls == 3

defaultAcceptHeader ==
    "application/xml, application/atom+xml, application/rss+xml, application/rdf+xml, application/feed+json, text/html, */*;q=0.9"

\* textproto.CanonicalMIMEHeaderKey
CanonicalMIMEHeaderKey(key) ==
    CASE key = "if-none-match" -> "If-None-Match"
      [] key = "x-test"        -> "X-Test"
      [] OTHER                 -> key

\* http.Header.Set
Set(h, key, value) ==
    [k \in DOMAIN h \cup {CanonicalMIMEHeaderKey(key)} |->
        IF k = CanonicalMIMEHeaderKey(key) THEN value ELSE h[k]]

\* base64.StdEncoding.EncodeToString([]byte(username + ":" + password))
EncodeToString(username, password) ==
    CASE username = "u" /\ password = "p" -> "dTpw"
      [] username = "u" /\ password = ""  -> "dTo="
      [] username = "" /\ password = "p"  -> "OnA="
      [] OTHER                            -> "Og=="

\* The headers of builder r.
Headers(s, r) == s.headerMaps[s.builders[r].headers]

SetHeader(s, r, key, value) ==
    [s EXCEPT !.headerMaps[s.builders[r].headers] = Set(@, key, value)]

\* The builders right after NewRequestBuilder().
NewRequestBuilder ==
    [headerMaps |-> <<[k \in {} |-> ""]>>,
     builders   |-> <<[headers |-> 1, clientConfig |-> defaultClientConfig]>>]

\* rb := *r without the clone of the headers.
CopySharingHeaders(s, r) ==
    [s EXCEPT !.builders = Append(@, s.builders[r])]

\* rb := *r; rb.headers = r.headers.Clone()
Copy(s, r) ==
    [headerMaps |-> Append(s.headerMaps, Headers(s, r)),
     builders   |-> Append(s.builders,
                           [headers      |-> Len(s.headerMaps) + 1,
                            clientConfig |-> s.builders[r].clientConfig])]

WithHeader(s, r, key, value) == SetHeader(s, r, key, value)

\* An If-None-Match set whatever the ETag.
WithETagAlways(s, r, etag) == SetHeader(s, r, "If-None-Match", etag)

WithETag(s, r, etag) ==
    IF etag # "" THEN SetHeader(s, r, "If-None-Match", etag) ELSE s

WithLastModified(s, r, lastModified) ==
    IF lastModified # "" THEN SetHeader(s, r, "If-Modified-Since", lastModified) ELSE s

WithUserAgent(s, r, userAgent, defaultUserAgent) ==
    IF userAgent # ""
    THEN SetHeader(s, r, "User-Agent", userAgent)
    ELSE SetHeader(s, r, "User-Agent", defaultUserAgent)

WithCookie(s, r, cookie) ==
    IF cookie # "" THEN SetHeader(s, r, "Cookie", cookie) ELSE s

WithUsernameAndPassword(s, r, username, password) ==
    IF username # "" /\ password # ""
    THEN SetHeader(s, r, "Authorization", "Basic " \o EncodeToString(username, password))
    ELSE s

WithProxy(s, r, proxyURL) ==
    [s EXCEPT !.builders[r].clientConfig.clientProxyURL = proxyURL]

UseProxy(s, r, value) ==
    [s EXCEPT !.builders[r].clientConfig.useClientProxy = value]

WithTimeout(s, r, timeout) ==
    [s EXCEPT !.builders[r].clientConfig.clientTimeout = timeout]

WithoutRedirects(s, r) ==
    [s EXCEPT !.builders[r].clientConfig.withoutRedirects = TRUE]

DisableHTTP2(s, r, value) ==
    [s EXCEPT !.builders[r].clientConfig.disableHTTP2 = value]

IgnoreTLSErrors(s, r, value) ==
    [s EXCEPT !.builders[r].clientConfig.ignoreTLSErrors = value]

\* http.NewRequest("GET", requestURL, nil) fails.
NewRequestFails(requestURL) == requestURL = "%zz"

\* req.Header = r.headers; req.Header.Set("Accept", defaultAcceptHeader)
requestHeader(s, r, requestURL) ==
    IF NewRequestFails(requestURL) THEN s
    ELSE SetHeader(s, r, "Accept", defaultAcceptHeader)

\* makeClient by a single caller: the cached client, or a new one stored under
\* its key; [cache, clients, client].
makeClient(cache, heap, cfg) ==
    IF clientConfig(cfg) \in DOMAIN cache
    THEN [cache |-> cache, clients |-> heap, client |-> cache[clientConfig(cfg)]]
    ELSE [cache   |-> storeClient(cache, clientConfig(cfg), Len(heap) + 1),
          clients |-> Append(heap, [cfg |-> cfg, client |-> newClient(cfg)]),
          client  |-> Len(heap) + 1]

\* The proxy a transport sends a request through ("" for a direct connection):
\* http.ProxyURL(proxyURL), or http.ProxyFromEnvironment.
proxyOf(transport, env) ==
    IF transport.Proxy = "ProxyFromEnvironment" THEN env ELSE transport.Proxy

R == [headerMaps |-> headerMaps, builders |-> builders]

NoCallYet == [op |-> "", on |-> 0, ret |-> 0, args |-> <<>>, client |-> 0, err |-> "nil"]

BuilderStartState ==
    /\ headerMaps = NewRequestBuilder.headerMaps
    /\ builders = NewRequestBuilder.builders
    /\ rcall = NoCallYet
    /\ rcalls = 0

\* A call of a setter on builder r: the builder is changed in place and returned.
Setter(r, s, op, args) ==
    /\ rcalls < MaxBuilderCalls
    /\ headerMaps' = s.headerMaps
    /\ builders' = s.builders
    /\ rcall' = [NoCallYet EXCEPT !.op = op, !.on = r, !.ret = r, !.args = args]
    /\ rcalls' = rcalls + 1
    /\ UNCHANGED proxyEnv
    /\ UNCHANGED <<sanVars, clientVars, storageVars, probabilityVars, rewriteVars>>

BuilderCopy(r) ==
    /\ rcalls < MaxBuilderCalls
    /\ Len(builders) < MaxBuilders
    /\ headerMaps' = Copy(R, r).headerMaps
    /\ builders' = Copy(R, r).builders
    /\ rcall' = [NoCallYet EXCEPT !.op = "Copy", !.on = r, !.ret = Len(builders) + 1]
    /\ rcalls' = rcalls + 1
    /\ UNCHANGED proxyEnv
    /\ UNCHANGED <<sanVars, clientVars, storageVars, probabilityVars, rewriteVars>>

BuilderWithHeader(r) ==
    \E key \in {"if-none-match", "X-Test"} :
        Setter(r, WithHeader(R, r, key, "v"), "WithHeader", <<key, "v">>)

BuilderWithETag(r) ==
    \E etag \in {"", "e"} : Setter(r, WithETag(R, r, etag), "WithETag", <<etag>>)

BuilderWithLastModified(r) ==
    \E lastModified \in {"", "d"} :
        Setter(r, WithLastModified(R, r, lastModified), "WithLastModified",
               <<lastModified>>)

BuilderWithUserAgent(r) ==
    \E userAgent \in {"", "ua"} :
        Setter(r, WithUserAgent(R, r, userAgent, "default"), "WithUserAgent",
               <<userAgent, "default">>)

BuilderWithCookie(r) ==
    \E cookie \in {"", "c"} : Setter(r, WithCookie(R, r, cookie), "WithCookie", <<cookie>>)

BuilderWithUsernameAndPassword(r) ==
    \E username \in {"", "u"}, password \in {"", "p"} :
        Setter(r, WithUsernameAndPassword(R, r, username, password),
               "WithUsernameAndPassword", <<username, password>>)

BuilderWithProxy(r) ==
    \E proxyURL \in {"", "http://proxy.example:3128", "%zz"} :
        Setter(r, WithProxy(R, r, proxyURL), "WithProxy", <<proxyURL>>)

BuilderUseProxy(r) ==
    \E value \in BOOLEAN : Setter(r, UseProxy(R, r, value), "UseProxy", <<value>>)

BuilderWithTimeout(r) == Setter(r, WithTimeout(R, r, 30), "WithTimeout", <<30>>)

BuilderWithoutRedirects(r) == Setter(r, WithoutRedirects(R, r), "WithoutRedirects", <<>>)

BuilderDisableHTTP2(r) == Setter(r, DisableHTTP2(R, r, TRUE), "DisableHTTP2", <<TRUE>>)

BuilderIgnoreTLSErrors(r) ==
    Setter(r, IgnoreTLSErrors(R, r, TRUE), "IgnoreTLSErrors", <<TRUE>>)

\* ExecuteRequest up to client.Do(req): makeClient, http.NewRequest, the headers.
BuilderExecuteRequest(r) ==
    /\ rcalls < MaxBuilderCalls
    /\ \E requestURL \in {"https://example.org/feed", "%zz"} :
        /\ headerMaps' = requestHeader(R, r, requestURL).headerMaps
        /\ rcall' = [NoCallYet EXCEPT
                        !.op = "ExecuteRequest", !.on = r, !.args = <<requestURL>>,
                        !.client = makeClient(clientCache, clients,
                                              builders[r].clientConfig).client,
                        !.err = IF NewRequestFails(requestURL)
                                THEN "parse" ELSE "nil"]
    /\ clientCache' = makeClient(clientCache, clients, builders[r].clientConfig).cache
    /\ clients' = makeClient(clientCache, clients, builders[r].clientConfig).clients
    /\ rcalls' = rcalls + 1
    /\ UNCHANGED <<builders, proxyEnv, cacheMutex, callers, returned, calls>>
    /\ UNCHANGED <<sanVars, storageVars, probabilityVars, rewriteVars>>

BuilderNext ==
    \E r \in 1..MaxBuilders :
        /\ r <= Len(builders)
        /\ \/ BuilderCopy(r)
           \/ BuilderWithHeader(r)
           \/ BuilderWithETag(r)
           \/ BuilderWithLastModified(r)
           \/ BuilderWithUserAgent(r)
           \/ BuilderWithCookie(r)
           \/ BuilderWithUsernameAndPassword(r)
           \/ BuilderWithProxy(r)
           \/ BuilderUseProxy(r)
           \/ BuilderWithTimeout(r)
           \/ BuilderWithoutRedirects(r)
           \/ BuilderDisableHTTP2(r)
           \/ BuilderIgnoreTLSErrors(r)
           \/ BuilderExecuteRequest(r)

(***************************************************************************)
(* The refresh probability of a job (storage).  float64 values are the     *)
(* fractions n/d with d > 0 and the arithmetic on them is exact; a         *)
(* division by zero gives d = 0.  Hours are whole numbers of thirds, so    *)
(* that math.Pow(8, hours) is a power of two.                              *)
(***************************************************************************)
MaxCount == 3
MaxHourThirds == 13

Frac(n, d) == [n |-> n, d |-> d]

\* float64(i)
FracOf(i) == Frac(i, 1)

FracAdd(x, y) == Frac(x.n * y.d + y.n * x.d, x.d * y.d)

FracMul(x, y) == Frac(x.n * y.n, x.d * y.d)

FracDiv(x, y) ==
    IF y.n > 0 THEN Frac(x.n * y.d, x.d * y.n) ELSE Frac(-(x.n * y.d), -(x.d * y.n))

FracLess(x, y) == x.n * y.d < y.n * x.d

FracEq(x, y) == x.n * y.d = y.n * x.d

max(x, y) == IF FracLess(x, y) THEN y ELSE x

min(x, y) == IF FracLess(y, x) THEN y ELSE x

RECURSIVE Pow2(_)
Pow2(k) == IF k = 0 THEN 1 ELSE 2 * Pow2(k - 1)

\* math.Pow(8, hours), hours = k/3
Pow8(hours) ==
    IF hours.n >= 0 THEN Frac(Pow2(hours.n), 1) ELSE Frac(1, Pow2(-hours.n))

gradient == Frac(5, 102)

\* The weight of an earlier revision: 1/3, or the count plus hours/18.
weightOfFirstRevision(j) ==
    IF j.WeeklyFeedOneHourBeforeAndAfterCount # 0
    THEN FracAdd(FracOf(j.WeeklyFeedOneHourBeforeAndAfterCount),
                 FracMul(Frac(1, 18), j.HoursSinceLastCheck))
    ELSE Frac(1, 3)

\* A weight whose baseline does not grow with the hours.
weightWithConstantBaseline(j) ==
    IF j.WeeklyFeedOneHourBeforeAndAfterCount # 0
    THEN FracMul(FracOf(j.WeeklyFeedOneHourBeforeAndAfterCount),
                 FracAdd(FracOf(1), FracDiv(Pow8(j.HoursSinceLastCheck), FracOf(256))))
    ELSE Frac(1, 3)

\* A weight that staleness damps instead of amplifying.
weightDampedByStaleness(j) ==
    IF j.WeeklyFeedOneHourBeforeAndAfterCount # 0
    THEN FracDiv(FracOf(j.WeeklyFeedOneHourBeforeAndAfterCount),
                 FracAdd(FracOf(1), FracDiv(Pow8(j.HoursSinceLastCheck), FracOf(256))))
    ELSE FracAdd(Frac(1, 3), FracMul(gradient, j.HoursSinceLastCheck))

\* var weight float64 = 1 / 3.0, and the if/else that sets it.
weight(j) ==
    IF j.WeeklyFeedOneHourBeforeAndAfterCount # 0
    THEN FracMul(FracOf(j.WeeklyFeedOneHourBeforeAndAfterCount),
                 FracAdd(FracOf(1), FracDiv(Pow8(j.HoursSinceLastCheck), FracOf(256))))
    ELSE FracAdd(Frac(1, 3), FracMul(gradient, j.HoursSinceLastCheck))

\* An age with a ceiling and no floor.
feedAgeWithoutFloor(j) == min(FracOf(7), j.AgeDays)

\* feedAge := min(7.0, max(1.0, j.AgeDays))
feedAge(j) == min(FracOf(7), max(FracOf(1), j.AgeDays))

feedRefreshProbability(j) == FracDiv(weight(j), feedAge(j))

\* The jobs handed to feedRefreshProbability: the raw ages, the counts, the
\* hours since the last check, and feeds checked eight hours in the future.
AgeDaysInputs ==
    {Frac(-1, 1), Frac(0, 1), Frac(1, 2), Frac(1, 1), Frac(5, 2), Frac(7, 1),
     Frac(100000, 1)}

HourThirds == (-3)..MaxHourThirds

Job(feedID, userID, count, age, hours) ==
    [FeedID |-> feedID, UserID |-> userID,
     WeeklyFeedOneHourBeforeAndAfterCount |-> count,
     AgeDays |-> age, HoursSinceLastCheck |-> hours]

Candidates ==
    {Job(1, 1, count, age, Frac(k, 3)) :
        count \in 0..MaxCount, age \in AgeDaysInputs, k \in HourThirds}
    \cup {Job(1, 1, 0, age, Frac(-24, 3)) : age \in AgeDaysInputs}

ProbabilityStartState ==
    /\ probability = Frac(0, 1)
    /\ ppc = "call"

\* probability, err = s.feedRefreshProbability(&j)
FeedRefreshProbability ==
    /\ ppc = "call"
    /\ probability' = feedRefreshProbability(candidate)
    /\ ppc' = "return"
    /\ UNCHANGED candidate
    /\ UNCHANGED <<sanVars, clientVars, storageVars, builderVars, rewriteVars>>

ProbabilityNext == FeedRefreshProbability

(***************************************************************************)
(* The feeds table and the queries on it (storage).  A row is a feed with  *)
(* the columns the queries read; times are relative to now(), so that      *)
(* next_check_at < now() is next_check_at < 0, and last_checked_at is the  *)
(* hours elapsed since checked_at.  A query yields its rows in any order   *)
(* that its ORDER BY allows: peers come in any order, and so does every    *)
(* row when there is no ORDER BY.                                          *)
(***************************************************************************)
MaxFeeds == 3
MaxBatchSize == 2
MaxConditions == 3

Row(id, user, disabled, next, errors, count, age, hours) ==
    [id |-> id, user_id |-> user, disabled |-> disabled, next_check_at |-> next,
     parsing_error_count |-> errors, range_count |-> count, age |-> age,
     last_checked_at |-> hours]

FeedRows ==
    {Row(1, 1, FALSE, -2, 0, 0, Frac(10, 1), Frac(9, 3)),
     Row(2, 1, FALSE, -1, 3, 2, Frac(0, 1), Frac(6, 3)),
     Row(3, 2, FALSE, -2, 0, 1, Frac(3, 1), Frac(3, 3)),
     Row(4, 1, TRUE, -2, 0, 0, Frac(2, 1), Frac(12, 3)),
     Row(5, 1, FALSE, 1, 0, 0, Frac(1, 1), Frac(0, 3)),
     Row(6, 2, FALSE, -1, 0, 3, Frac(1, 1), Frac(9, 3))}

Tables == {t \in SUBSET FeedRows : Cardinality(t) <= MaxFeeds}

UserIDs == {1, 2}

ErrorLimits == {0, 3}

BatchSizes == 0..MaxBatchSize

\* Every order of the rows of a set.
RECURSIVE Orders(_)
Orders(rows) ==
    IF rows = {} THEN {<<>>}
    ELSE UNION {{<<r>> \o o : o \in Orders(rows \ {r})} : r \in rows}

\* ORDER BY next_check_at ASC
OrderByNextCheckAt(rows) ==
    {o \in Orders(rows) :
        \A i, k \in DOMAIN o : i < k => o[i].next_check_at <= o[k].next_check_at}

\* LIMIT n
Limit(o, n) == SubSeq(o, 1, IF n < Len(o) THEN n ELSE Len(o))

\* CASE WHEN $1 > 0 THEN parsing_error_count < $1 ELSE parsing_error_count >= 0 END
ErrorCountCase(row, limit) ==
    IF limit > 0 THEN row.parsing_error_count < limit ELSE row.parsing_error_count >= 0

\* rows.Scan(&job.FeedID, &job.UserID)
scanJob(row) == Job(row.id, row.user_id, 0, Frac(0, 1), Frac(0, 1))

\* rows.Scan(&job.FeedID, &job.UserID, &job.WeeklyFeedOneHourBeforeAndAfterCount,
\*           &job.AgeDays, &job.HoursSinceLastCheck)
scanJobWithStatistics(row) ==
    Job(row.id, row.user_id, row.range_count, row.age, row.last_checked_at)

\* The failures of a storage read: of the query, of the scan of a row, or of the
\* iteration over the rows (rows.Next() returns false and rows.Err() holds the
\* error); at is the number of rows read before the failure.
Failures == {"none", "query", "scan", "iterate"}

CanFail(rows, fail, at) ==
    /\ at \in 0..Len(rows)
    /\ fail \in {"none", "query"} => at = 0
    /\ fail \in {"scan", "iterate"} => at < Len(rows)

\* db.Query, then the loop for rows.Next() { rows.Scan(...); jobs = append(jobs, job) },
\* then return jobs, nil.  rows holds the jobs the rows scan to.
readRows(rows, fail, at) ==
    IF fail = "query"
    THEN [jobs |-> <<>>, err |-> "store: unable to fetch batch of jobs"]
    ELSE IF fail = "scan"
    THEN [jobs |-> <<>>, err |-> "store: unable to fetch job"]
    ELSE IF fail = "iterate"
    THEN [jobs |-> SubSeq(rows, 1, at), err |-> "nil"]
    ELSE [jobs |-> rows, err |-> "nil"]

\* The jobs the rows of a query scan to, in FetchJobs and in fetchBatchRows.
scanJobs(o) == [i \in DOMAIN o |-> scanJob(o[i])]

scanJobsWithStatistics(o) == [i \in DOMAIN o |-> scanJobWithStatistics(o[i])]

(***************************************************************************)
(* BatchBuilder: conditions joined by AND, their arguments, and the limit. *)
(***************************************************************************)
Condition(column, arg) == [column |-> column, arg |-> arg]

NewBatchBuilder == [args |-> <<>>, conditions |-> <<>>, limit |-> 0]

WithBatchSize(bb, batchSize) == [bb EXCEPT !.limit = batchSize]

WithUserID(bb, userID) ==
    [bb EXCEPT !.conditions = Append(@, Condition("user_id", Len(bb.args) + 1)),
               !.args = Append(@, userID)]

\* A limit that is recorded but never turned into a condition.
WithErrorLimitIgnored(bb, limit) == bb

WithErrorLimit(bb, limit) ==
    IF limit > 0
    THEN [bb EXCEPT !.conditions =
                        Append(@, Condition("parsing_error_count", Len(bb.args) + 1)),
                    !.args = Append(@, limit)]
    ELSE bb

WithNextCheckExpired(bb) ==
    [bb EXCEPT !.conditions = Append(@, Condition("next_check_at", 0))]

WithoutDisabledFeeds(bb) ==
    [bb EXCEPT !.conditions = Append(@, Condition("disabled", 0))]

\* One condition of the WHERE clause on one row.
ConditionHolds(cond, args, row) ==
    CASE cond.column = "user_id"             -> row.user_id = args[cond.arg]
      [] cond.column = "parsing_error_count" -> row.parsing_error_count < args[cond.arg]
      [] cond.column = "next_check_at"       -> row.next_check_at < 0
      [] cond.column = "disabled"            -> row.disabled = FALSE

Where(bb, table) ==
    {row \in table :
        \A i \in DOMAIN bb.conditions : ConditionHolds(bb.conditions[i], bb.args, row)}

\* The rows the query of FetchJobs may yield.
FetchJobsQuery(bb, table) ==
    IF bb.limit > 0
    THEN {Limit(o, bb.limit) : o \in OrderByNextCheckAt(Where(bb, table))}
    ELSE Orders(Where(bb, table))

\* The rows the query of NewBatch may yield.
NewBatchQuery(table, limit, batchSize) ==
    {Limit(o, batchSize) :
        o \in OrderByNextCheckAt(
                {row \in table : /\ row.disabled = FALSE
                                 /\ row.next_check_at < 0
                                 /\ ErrorCountCase(row, limit)})}

\* The rows the query of NewUserBatch may yield.
NewUserBatchQuery(table, userID, batchSize) ==
    {Limit(o, batchSize) :
        o \in OrderByNextCheckAt(
                {row \in table : row.user_id = userID /\ row.disabled = FALSE})}

\* The rows the query of NewFrequencyBasedRandomedBatch may yield.
FrequencyBasedQuery(table, limit) ==
    Orders({row \in table : row.disabled = FALSE /\ ErrorCountCase(row, limit)})

(***************************************************************************)
(* The batch operations, one per behaviour: a builder is configured call   *)
(* by call and then asked for its jobs; NewBatch, NewUserBatch and         *)
(* NewFrequencyBasedRandomedBatch are single calls, the last one looping   *)
(* over its candidates a draw at a time.  call remembers the operation and *)
(* its arguments, failure the storage failure that happened, drawn the     *)
(* feeds handed to isHit, in order.                                        *)
(***************************************************************************)
NoCall == [name |-> "", batchSize |-> 0, userID |-> 0, methods |-> {}]

StorageStartState ==
    /\ b = NewBatchBuilder
    /\ call = NoCall
    /\ spc = "start"
    /\ queue = <<>>
    /\ drawn = <<>>
    /\ jobs = <<>>
    /\ batchErr = "nil"
    /\ failure = "none"

Return(r) ==
    /\ jobs' = r.jobs
    /\ batchErr' = r.err
    /\ spc' = "done"

CanConfigure(method) ==
    /\ spc = "builder"
    /\ method \notin call.methods
    /\ Cardinality(call.methods \ {"WithBatchSize"}) < MaxConditions

BatchBuilderNew ==
    /\ spc = "start"
    /\ b' = NewBatchBuilder
    /\ call' = [NoCall EXCEPT !.name = "FetchJobs"]
    /\ spc' = "builder"
    /\ UNCHANGED <<feeds, pollingParsingErrorLimit, queue, drawn, jobs, batchErr, failure>>
    /\ UNCHANGED <<sanVars, clientVars, probabilityVars, builderVars, rewriteVars>>

BatchBuilderWithBatchSize(batchSize) ==
    /\ spc = "builder"
    /\ "WithBatchSize" \notin call.methods
    /\ b' = WithBatchSize(b, batchSize)
    /\ call' = [call EXCEPT !.batchSize = batchSize, !.methods = @ \cup {"WithBatchSize"}]
    /\ UNCHANGED <<feeds, pollingParsingErrorLimit, spc, queue, drawn, jobs, batchErr, failure>>
    /\ UNCHANGED <<sanVars, clientVars, probabilityVars, builderVars, rewriteVars>>

BatchBuilderWithUserID(userID) ==
    /\ CanConfigure("WithUserID")
    /\ b' = WithUserID(b, userID)
    /\ call' = [call EXCEPT !.userID = userID, !.methods = @ \cup {"WithUserID"}]
    /\ UNCHANGED <<feeds, pollingParsingErrorLimit, spc, queue, drawn, jobs, batchErr, failure>>
    /\ UNCHANGED <<sanVars, clientVars, probabilityVars, builderVars, rewriteVars>>

BatchBuilderWithErrorLimit ==
    /\ CanConfigure("WithErrorLimit")
    /\ b' = WithErrorLimit(b, pollingParsingErrorLimit)
    /\ call' = [call EXCEPT !.methods = @ \cup {"WithErrorLimit"}]
    /\ UNCHANGED <<feeds, pollingParsingErrorLimit, spc, queue, drawn, jobs, batchErr, failure>>
    /\ UNCHANGED <<sanVars, clientVars, probabilityVars, builderVars, rewriteVars>>

BatchBuilderWithNextCheckExpired ==
    /\ CanConfigure("WithNextCheckExpired")
    /\ b' = WithNextCheckExpired(b)
    /\ call' = [call EXCEPT !.methods = @ \cup {"WithNextCheckExpired"}]
    /\ UNCHANGED <<feeds, pollingParsingErrorLimit, spc, queue, drawn, jobs, batchErr, failure>>
    /\ UNCHANGED <<sanVars, clientVars, probabilityVars, builderVars, rewriteVars>>

BatchBuilderWithoutDisabledFeeds ==
    /\ CanConfigure("WithoutDisabledFeeds")
    /\ b' = WithoutDisabledFeeds(b)
    /\ call' = [call EXCEPT !.methods = @ \cup {"WithoutDisabledFeeds"}]
    /\ UNCHANGED <<feeds, pollingParsingErrorLimit, spc, queue, drawn, jobs, batchErr, failure>>
    /\ UNCHANGED <<sanVars, clientVars, probabilityVars, builderVars, rewriteVars>>

FetchJobs ==
    /\ spc = "builder"
    /\ \E o \in FetchJobsQuery(b, feeds), fail \in Failures, at \in 0..Cardinality(feeds) :
        /\ CanFail(o, fail, at)
        /\ failure' = fail
        /\ Return(readRows(scanJobs(o), fail, at))
    /\ UNCHANGED <<feeds, pollingParsingErrorLimit, b, call, queue, drawn>>
    /\ UNCHANGED <<sanVars, clientVars, probabilityVars, builderVars, rewriteVars>>

NewBatch(batchSize) ==
    /\ spc = "start"
    /\ call' = [NoCall EXCEPT !.name = "NewBatch", !.batchSize = batchSize]
    /\ \E o \in NewBatchQuery(feeds, pollingParsingErrorLimit, batchSize),
          fail \in Failures, at \in 0..Cardinality(feeds) :
        /\ CanFail(o, fail, at)
        /\ failure' = fail
        /\ Return(readRows(scanJobs(o), fail, at))
    /\ UNCHANGED <<feeds, pollingParsingErrorLimit, b, queue, drawn>>
    /\ UNCHANGED <<sanVars, clientVars, probabilityVars, builderVars, rewriteVars>>

NewUserBatch(userID, batchSize) ==
    /\ spc = "start"
    /\ call' = [NoCall EXCEPT !.name = "NewUserBatch", !.batchSize = batchSize,
                              !.userID = userID]
    /\ \E o \in NewUserBatchQuery(feeds, userID, batchSize),
          fail \in Failures, at \in 0..Cardinality(feeds) :
        /\ CanFail(o, fail, at)
        /\ failure' = fail
        /\ Return(readRows(scanJobs(o), fail, at))
    /\ UNCHANGED <<feeds, pollingParsingErrorLimit, b, queue, drawn>>
    /\ UNCHANGED <<sanVars, clientVars, probabilityVars, builderVars, rewriteVars>>

\* rand.Float64() < probability, for a draw anywhere in [0, 1)
isHit(p) == {hit \in BOOLEAN : IF hit THEN p.n > 0 ELSE FracLess(p, Frac(1, 1))}

\* allJobs, err = s.fetchBatchRows(query, pollingParsingErrorLimit)
NewFrequencyBasedRandomedBatch(batchSize) ==
    /\ spc = "start"
    /\ call' = [NoCall EXCEPT !.name = "NewFrequencyBasedRandomedBatch",
                              !.batchSize = batchSize]
    /\ \E o \in FrequencyBasedQuery(feeds, pollingParsingErrorLimit),
          fail \in Failures, at \in 0..Cardinality(feeds) :
        /\ CanFail(o, fail, at)
        /\ failure' = fail
        /\ queue' = readRows(scanJobsWithStatistics(o), fail, at).jobs
        /\ batchErr' = readRows(scanJobsWithStatistics(o), fail, at).err
    /\ spc' = "loop"
    /\ UNCHANGED <<feeds, pollingParsingErrorLimit, b, drawn, jobs>>
    /\ UNCHANGED <<sanVars, clientVars, probabilityVars, builderVars, rewriteVars>>

\* One turn of for _, j := range allJobs.
DrawCandidate ==
    /\ spc = "loop"
    /\ queue # <<>>
    /\ \E hit \in isHit(feedRefreshProbability(Head(queue))) :
        /\ jobs' = IF hit THEN Append(jobs, Head(queue)) ELSE jobs
        /\ spc' = IF hit /\ Len(jobs) + 1 >= call.batchSize THEN "done" ELSE "loop"
    /\ drawn' = Append(drawn, Head(queue).FeedID)
    /\ queue' = Tail(queue)
    /\ batchErr' = "nil"
    /\ UNCHANGED <<feeds, pollingParsingErrorLimit, b, call, failure>>
    /\ UNCHANGED <<sanVars, clientVars, probabilityVars, builderVars, rewriteVars>>

\* The return after the loop.
ReturnBatch ==
    /\ spc = "loop"
    /\ queue = <<>>
    /\ spc' = "done"
    /\ UNCHANGED <<feeds, pollingParsingErrorLimit, b, call, queue, drawn, jobs, batchErr,
                   failure>>
    /\ UNCHANGED <<sanVars, clientVars, probabilityVars, builderVars, rewriteVars>>

StorageNext ==
    \/ BatchBuilderNew
    \/ \E batchSize \in BatchSizes : BatchBuilderWithBatchSize(batchSize)
    \/ \E userID \in UserIDs : BatchBuilderWithUserID(userID)
    \/ BatchBuilderWithErrorLimit
    \/ BatchBuilderWithNextCheckExpired
    \/ BatchBuilderWithoutDisabledFeeds
    \/ FetchJobs
    \/ \E batchSize \in BatchSizes : NewBatch(batchSize)
    \/ \E userID \in UserIDs, batchSize \in BatchSizes : NewUserBatch(userID, batchSize)
    \/ \E batchSize \in BatchSizes : NewFrequencyBasedRandomedBatch(batchSize)
    \/ DrawCandidate
    \/ ReturnBatch

(***************************************************************************)
(* Repeated selection: the scheduler asks for a batch again and again, the *)
(* feeds of a batch are refreshed, which sets checked_at to now(), and the *)
(* others wait one more interval.  The hours of a feed are followed up to  *)
(* the point where its probability is at least 1: from there on isHit      *)
(* gives the same answer whatever the hours.                               *)
(***************************************************************************)
MaxRefreshStep == 9

RefreshBatchSizes == 1..MaxBatchSize

\* The feeds without a recent cadence that are not disabled.
RefreshFeedIDs ==
    {row.id : row \in {r \in FeedRows : r.range_count = 0 /\ r.disabled = FALSE}}

\* The tables of the repeated selection: a feed without a recent cadence
\* among feeds of three days at most (the older a feed, the more intervals
\* pass before its probability reaches 1).
RefreshTables ==
    {t \in Tables :
        /\ \E row \in t : row.id \in RefreshFeedIDs
        /\ \A row \in t : ~FracLess(Frac(3, 1), row.age)}

\* The ids of the feeds of a job list.
FeedIDsOf(list) == {list[i].FeedID : i \in DOMAIN list}

\* isHit(probability) whatever the draw
isCertain(row) ==
    ~FracLess(feedRefreshProbability(scanJobWithStatistics(row)), Frac(1, 1))

\* EXTRACT(EPOCH FROM now()-f.checked_at)/3600, one interval later.
hoursLater(row, checked) ==
    IF row.id \in checked THEN Frac(MaxRefreshStep, 3)
    ELSE IF isCertain(row) THEN row.last_checked_at
    ELSE Frac(row.last_checked_at.n + MaxRefreshStep, 3)

\* The call of NewFrequencyBasedRandomedBatch whose query and rows succeed.
SelectBatch(batchSize) ==
    /\ NewFrequencyBasedRandomedBatch(batchSize)
    /\ failure' = "none"

\* The jobs of the batch are refreshed and the next interval passes.
RefreshFeeds ==
    /\ spc = "done"
    /\ feeds' = {[row EXCEPT !.last_checked_at = hoursLater(row, FeedIDsOf(jobs))] :
                    row \in feeds}
    /\ call' = NoCall
    /\ spc' = "start"
    /\ queue' = <<>>
    /\ drawn' = <<>>
    /\ jobs' = <<>>
    /\ batchErr' = "nil"
    /\ failure' = "none"
    /\ UNCHANGED <<pollingParsingErrorLimit, b>>
    /\ UNCHANGED <<sanVars, clientVars, probabilityVars, builderVars, rewriteVars>>

\* The draw that admits the feed id.
Admit(id) ==
    /\ DrawCandidate
    /\ Head(queue).FeedID = id
    /\ jobs' # jobs

RefreshNext ==
    \/ \E batchSize \in RefreshBatchSizes : SelectBatch(batchSize)
    \/ DrawCandidate
    \/ ReturnBatch
    \/ RefreshFeeds

(***************************************************************************)
(* rewriteEntries (custom script).  Entries are objects reached through    *)
(* pointers: entryObjects is the heap, feedEntries[f] the list of feed f   *)
(* as positions in the heap.  Feed 1 is the feed handed to rewriteEntries, *)
(* feed 2 another feed.  The script is known by what its run produces:     *)
(* an error, or the JSON value left in the variable entries.               *)
(***************************************************************************)
MaxEntries == 2
MaxOutput == 2

Hashes == {"h1", "h2"}

\* A model.Entry: the fields safeEntry copies, and two it does not.
Entry(id, hash) ==
    [ID          |-> ToString(id),
     Hash        |-> hash,
     Title       |-> "title " \o ToString(id),
     URL         |-> "url " \o ToString(id),
     CommentsURL |-> "comments " \o ToString(id),
     Content     |-> "content " \o ToString(id),
     Author      |-> "author " \o ToString(id),
     Status      |-> "unread"]

SafeFields == {"Title", "URL", "CommentsURL", "Content", "Author", "Hash"}

\* The json tag of a field of safeEntry.
jsonTag(field) ==
    CASE field = "Title"       -> "title"
      [] field = "URL"         -> "url"
      [] field = "CommentsURL" -> "comments_url"
      [] field = "Content"     -> "content"
      [] field = "Author"      -> "author"
      [] field = "Hash"        -> "hash"

newSafeEntry(entry) == [f \in SafeFields |-> entry[f]]

\* A nil *safeEntry, and the zero safeEntry.
nilSafeEntry == [nil |-> "nil"]
zeroSafeEntry == [f \in SafeFields |-> ""]

\* A merge that also takes the hash.
mergeWithHash(se, entry) ==
    [entry EXCEPT !.Title = se.Title, !.URL = se.URL,
                  !.CommentsURL = se.CommentsURL, !.Content = se.Content,
                  !.Author = se.Author, !.Hash = se.Hash]

merge(se, entry) ==
    [entry EXCEPT !.Title = se.Title, !.URL = se.URL,
                  !.CommentsURL = se.CommentsURL, !.Content = se.Content,
                  !.Author = se.Author]

\* entries[entry.Hash] = entry over the list: the last entry of a hash stays.
entriesOf(objects, list) ==
    [h \in {objects[list[i]].Hash : i \in DOMAIN list} |->
        list[CHOOSE i \in DOMAIN list :
                /\ objects[list[i]].Hash = h
                /\ \A k \in DOMAIN list : objects[list[k]].Hash = h => k <= i]]

safeEntriesOf(objects, list) ==
    [i \in DOMAIN list |-> newSafeEntry(objects[list[i]])]

\* JSON values: null, a number, an object with some of the keys.
JSONNull == [kind |-> "null", members |-> [k \in {} |-> ""]]
JSONNumber == [kind |-> "number", members |-> [k \in {} |-> ""]]
JSONObject(members) == [kind |-> "object", members |-> members]

Rewritten(hash) ==
    JSONObject([k \in {jsonTag(f) : f \in SafeFields} |->
                   IF k = "hash" THEN hash ELSE "new " \o k])

Elements ==
    {JSONNull, JSONNumber, Rewritten("h1"), Rewritten("h2"), Rewritten("h9"),
     JSONObject([k \in {"hash"} |-> "h2"]),
     JSONObject([k \in {"title"} |-> "new title"])}

JSONArray(elems) == [kind |-> "array", elems |-> elems]
JSONString == [kind |-> "string", elems |-> <<>>]
NoJSON == [kind |-> "empty", elems |-> <<>>]

Outputs ==
    {JSONString, [kind |-> "null", elems |-> <<>>]}
    \cup {JSONArray(elems) : elems \in UNION {[1..n -> Elements] : n \in 0..MaxOutput}}

\* What the run of a script gives: the custom script throws, the read of
\* entries fails, MarshalJSON fails, or entries holds a JSON value.
Scripts ==
    {[outcome |-> o, output |-> NoJSON] : o \in {"throws", "unreadable", "unmarshalable"}}
    \cup {[outcome |-> "ok", output |-> out] : out \in Outputs}

NoScript == [outcome |-> "", output |-> NoJSON]

\* objJson, _ = objValue.MarshalJSON()
MarshalJSON(s) == IF s.outcome = "ok" THEN s.output ELSE NoJSON

\* The decoding of one array element into the element of the slice at its
\* position (the zero value past the end of the slice).
decodeElement(el, old) ==
    IF el.kind = "null" THEN nilSafeEntry
    ELSE IF el.kind = "number" THEN old
    ELSE [f \in SafeFields |->
            IF jsonTag(f) \in DOMAIN el.members THEN el.members[jsonTag(f)]
            ELSE old[f]]

elementAt(v, i) ==
    IF i <= Len(v) /\ v[i] # nilSafeEntry THEN v[i] ELSE zeroSafeEntry

\* json.Unmarshal(data, &v): [v, err]
Unmarshal(data, v) ==
    CASE data.kind = "empty"  -> [v |-> v, err |-> "unexpected end of JSON input"]
      [] data.kind = "string" -> [v |-> v, err |-> "json: cannot unmarshal string"]
      [] data.kind = "null"   -> [v |-> <<>>, err |-> "nil"]
      [] OTHER ->
           [v   |-> [i \in DOMAIN data.elems |->
                       decodeElement(data.elems[i], elementAt(v, i))],
            err |-> IF \E i \in DOMAIN data.elems : data.elems[i].kind = "number"
                    THEN "json: cannot unmarshal number"
                    ELSE "nil"]

\* A run whose errors are dropped like those of NewContext and Marshal.
runErrorIgnored(s, v) == "nil"

\* The error rewriteEntries returns before the merge, "nil" for none.
runError(s, v) ==
    IF s.outcome = "throws" THEN "script error"
    ELSE IF s.outcome = "unreadable" THEN "read error"
    ELSE Unmarshal(MarshalJSON(s), v).err

RewriteStartState ==
    /\ script = NoScript
    /\ safeEntries = <<>>
    /\ entriesByHash = [h \in {} |-> 0]
    /\ filteredEntries = <<>>
    /\ ridx = 0
    /\ rpc = "idle"
    /\ rerr = "nil"
    /\ rbefore = [entryObjects |-> entryObjects, feedEntries |-> feedEntries]

\* rewriteEntries(feed) up to the loop over safeEntries.
RewriteEntries ==
    /\ rpc = "idle"
    /\ \E s \in Scripts :
        /\ script' = s
        /\ entriesByHash' = entriesOf(entryObjects, feedEntries[1])
        /\ safeEntries' = Unmarshal(MarshalJSON(s),
                                    safeEntriesOf(entryObjects, feedEntries[1])).v
        /\ rerr' = runError(s, safeEntriesOf(entryObjects, feedEntries[1]))
        /\ rpc' = IF runError(s, safeEntriesOf(entryObjects, feedEntries[1])) # "nil"
                  THEN "done" ELSE "merge"
    /\ ridx' = 1
    /\ UNCHANGED <<entryObjects, feedEntries, filteredEntries, rbefore>>
    /\ UNCHANGED <<sanVars, clientVars, storageVars, probabilityVars, builderVars>>

\* One turn of the loop: safeEntry.Hash of a nil safeEntry panics.
MergeEntry ==
    /\ rpc = "merge"
    /\ ridx <= Len(safeEntries)
    /\ IF safeEntries[ridx] = nilSafeEntry
       THEN /\ rpc' = "panic"
            /\ UNCHANGED <<entryObjects, filteredEntries, ridx>>
       ELSE /\ IF safeEntries[ridx].Hash \in DOMAIN entriesByHash
               THEN /\ entryObjects' =
                         [entryObjects EXCEPT
                            ![entriesByHash[safeEntries[ridx].Hash]] =
                                merge(safeEntries[ridx], @)]
                    /\ filteredEntries' =
                         Append(filteredEntries, entriesByHash[safeEntries[ridx].Hash])
               ELSE UNCHANGED <<entryObjects, filteredEntries>>
            /\ ridx' = ridx + 1
            /\ UNCHANGED rpc
    /\ UNCHANGED <<feedEntries, script, safeEntries, entriesByHash, rerr, rbefore>>
    /\ UNCHANGED <<sanVars, clientVars, storageVars, probabilityVars, builderVars>>

\* feed.Entries = filteredEntries; return nil
AssignEntries ==
    /\ rpc = "merge"
    /\ ridx > Len(safeEntries)
    /\ feedEntries' = [feedEntries EXCEPT ![1] = filteredEntries]
    /\ rpc' = "done"
    /\ UNCHANGED <<entryObjects, script, safeEntries, entriesByHash, filteredEntries,
                   ridx, rerr, rbefore>>
    /\ UNCHANGED <<sanVars, clientVars, storageVars, probabilityVars, builderVars>>

RewriteNext ==
    \/ RewriteEntries
    \/ MergeEntry
    \/ AssignEntries

(***************************************************************************)
(* The specifications: the sanitizer on one input, the callers of          *)
(* makeClient, a batch operation on one feeds table, and the refresh       *)
(* probability of one job.                                                 *)
(***************************************************************************)
\* No feed is stored and no batch is asked for.
NoStorage ==
    /\ feeds = {}
    /\ pollingParsingErrorLimit = 0
    /\ StorageStartState

\* No request builder is in use.
NoBuilders ==
    /\ BuilderStartState
    /\ proxyEnv = ""

\* No feed has entries and no script runs.
NoRewrite ==
    /\ entryObjects = <<>>
    /\ feedEntries = <<<<>>, <<>>>>
    /\ RewriteStartState

\* No job is handed to feedRefreshProbability.
NoProbability ==
    /\ candidate = Job(0, 0, 0, Frac(0, 1), Frac(0, 1))
    /\ ProbabilityStartState

SanitizeInit ==
    /\ baseURL \in BaseURLs
    /\ SanitizeStartState
    /\ ClientStartState
    /\ NoStorage
    /\ NoProbability
    /\ NoBuilders
    /\ NoRewrite

SanitizeSpec == SanitizeInit /\ [][SanitizeNext]_vars

ElementSpec == SanitizeInit /\ [][ElementNext]_vars

ClientInit ==
    /\ baseURL = <<"https:", "/", "/", "example.org", "/">>
    /\ SanitizeStartState
    /\ ClientStartState
    /\ NoStorage
    /\ NoProbability
    /\ NoBuilders
    /\ NoRewrite

ClientSpec == ClientInit /\ [][ClientNext]_vars

StorageInit ==
    /\ baseURL = <<"https:", "/", "/", "example.org", "/">>
    /\ SanitizeStartState
    /\ ClientStartState
    /\ feeds \in Tables
    /\ pollingParsingErrorLimit \in ErrorLimits
    /\ StorageStartState
    /\ NoProbability
    /\ NoBuilders
    /\ NoRewrite

StorageSpec == StorageInit /\ [][StorageNext]_vars

RefreshInit ==
    /\ StorageInit
    /\ feeds \in RefreshTables

RefreshSpec == RefreshInit /\ [][RefreshNext]_vars

\* Every step that can be taken is taken in the end, and a feed that is
\* drawn again and again with a probability above 0 is admitted in the end.
RefreshLiveSpec ==
    /\ RefreshSpec
    /\ WF_vars(RefreshNext)
    /\ \A id \in RefreshFeedIDs : SF_vars(Admit(id))

ProbabilityInit ==
    /\ baseURL = <<"https:", "/", "/", "example.org", "/">>
    /\ SanitizeStartState
    /\ ClientStartState
    /\ NoStorage
    /\ candidate \in Candidates
    /\ ProbabilityStartState
    /\ NoBuilders
    /\ NoRewrite

ProbabilitySpec == ProbabilityInit /\ [][ProbabilityNext]_vars

BuilderInit ==
    /\ baseURL = <<"https:", "/", "/", "example.org", "/">>
    /\ SanitizeStartState
    /\ ClientStartState
    /\ NoStorage
    /\ NoProbability
    /\ BuilderStartState
    /\ proxyEnv \in {"", "http://env-proxy.example:8080"}
    /\ NoRewrite

BuilderSpec == BuilderInit /\ [][BuilderNext]_vars

\* Feed 1 has up to MaxEntries entries, feed 2 one entry whose hash feed 1 may
\* hold as well.
RewriteInit ==
    /\ baseURL = <<"https:", "/", "/", "example.org", "/">>
    /\ SanitizeStartState
    /\ ClientStartState
    /\ NoStorage
    /\ NoProbability
    /\ NoBuilders
    /\ \E n \in 0..MaxEntries : \E hashes \in [1..n -> Hashes] :
          /\ entryObjects = [i \in 1..(n + 1) |->
                                IF i <= n THEN Entry(i, hashes[i]) ELSE Entry(i, "h1")]
          /\ feedEntries = <<[i \in 1..n |-> i], <<n + 1>>>>
    /\ RewriteStartState

RewriteSpec == RewriteInit /\ [][RewriteNext]_vars

(***************************************************************************)
(* Properties of the sanitizer, checked under SanitizeSpec.                *)
(***************************************************************************)
\* The tokens of the output written so far, and of what the last token wrote.
OutputTokens == Tokenize(buffer)

EmittedTokens == Tokenize(emitted)

ListSet(list) == {list[k] : k \in DOMAIN list}

AttrKeys(attributes) == {attributes[k].Key : k \in DOMAIN attributes}

AttrValues(attributes, key) ==
    {attributes[k].Val : k \in {j \in DOMAIN attributes : attributes[j].Key = key}}

\* The last step handled a start tag or a self-closing tag.
TagHandled == read > 0 /\ token.Type \in {"StartTag", "SelfClosing"}

\* C1: a text token between a script, style or noscript start tag and the
\* matching end tag is never written to the output.
C1_BlockedTextNeverWritten ==
    (token.Type = "Text" /\ rawTag \in {"script", "style", "noscript"} /\ rawTextDone)
        => emitted = <<>>

\* The attribute names that may appear on an emitted tag.
AllowedAttributes(tagName) ==
    ListSet(tagAllowList[tagName]) \cup ListSet(getExtraAttributes(tagName).names)

TagsAllowListed(tokens) ==
    \A i \in DOMAIN tokens :
        tokens[i].Type \in {"StartTag", "EndTag", "SelfClosing"} =>
            /\ tokens[i].Tag \in DOMAIN tagAllowList
            /\ AttrKeys(tokens[i].Attr) \subseteq AllowedAttributes(tokens[i].Tag)

\* C2: every tag name in the output is on the tag allow-list, and every
\* attribute of an emitted tag is in that tag's attribute allow-list or is one
\* of the extra attributes injected for the tag.
C2_OutputAllowListed ==
    TagsAllowListed(OutputTokens) /\ TagsAllowListed(EmittedTokens)

\* An input tag with an attribute that is not allow-listed has been emitted.
C2_Witness ==
    /\ TagHandled
    /\ token.Tag = "a"
    /\ "onclick" \in AttrKeys(token.Attr)
    /\ emitted # <<>>
    /\ "onclick" \notin AttrKeys(EmittedTokens[1].Attr)

\* The three ways a resource attribute of a tag other than iframe gets out.
SafeResource(tagName, key, value, inputs) ==
    \/ /\ tagName = "img"
       /\ key = "src"
       /\ isValidDataAttribute(value)
       /\ value \in inputs
    \/ /\ tagName = "a"
       /\ key = "href"
       /\ value # <<>>
       /\ Head(value) = "#"
       /\ value \in inputs
    \/ /\ \E in \in inputs : AbsoluteURL(baseURL, in) = [err |-> FALSE, url |-> value]
       /\ IsAbs(value)
       /\ hasValidURIScheme(value)
       /\ ~isBlockedResource(value)

ResourcesSafe(t) ==
    \A k \in DOMAIN t.Attr :
        t.Attr[k].Key \in {"src", "href", "poster", "cite"} =>
            SafeResource(t.Tag, t.Attr[k].Key, t.Attr[k].Val,
                         AttrValues(token.Attr, t.Attr[k].Key))

\* C3: on an emitted element other than an iframe, every src, href, poster or
\* cite value is a safe data: image kept verbatim, an in-page anchor kept
\* verbatim, or the input resolved against the base with a whitelisted scheme
\* and no block-list match.
C3_ResourceAttributesSafe ==
    (TagHandled /\ token.Tag # "iframe" /\ emitted # <<>>) =>
        /\ Len(EmittedTokens) = 1
        /\ EmittedTokens[1].Tag = token.Tag
        /\ ResourcesSafe(EmittedTokens[1])

\* A video is emitted with its relative src resolved and its javascript: poster
\* dropped.
C3_Witness ==
    /\ TagHandled
    /\ token.Tag = "video"
    /\ AttrValues(token.Attr, "poster") = {uJs}
    /\ emitted # <<>>
    /\ AttrKeys(EmittedTokens[1].Attr) = {"src", "controls"}

\* The hosts of the trusted embed sites.
TrustedEmbedHosts ==
    {<<"www.youtube", ".com">>, <<"www.youtube", "-nocookie", ".com">>,
     <<"player.vimeo.com">>, <<"www.dailymotion.com">>, <<"vk.com">>,
     <<"soundcloud.com">>, <<"w.soundcloud.com">>, <<"bandcamp.com">>,
     <<"cdn.embedly.com">>, <<"player.bilibili.com">>}

IframeHostAllowed(src) ==
    \/ Domain(src) = Domain(baseURL)
    \/ Domain(src) \in TrustedEmbedHosts
    \/ Domain(src) = InvidiousInstance

\* C4: an iframe is emitted only if the domain of its src is the base page's
\* domain, a trusted embed host or the configured alternate instance host.
C4_IframeOnlyFromAllowedHost ==
    (TagHandled /\ token.Tag = "iframe" /\ emitted # <<>>) =>
        IframeHostAllowed(getAttributeValue("src", token.Attr))

HasAttribute(attributes, key, value) ==
    \E k \in DOMAIN attributes : attributes[k] = [Key |-> key, Val |-> value]

\* C5: an img start tag or self-closing tag with a width of "1" and a height of
\* "1" is never emitted, whatever its other attributes and their order.
C5_PixelTrackerNeverEmitted ==
    (/\ TagHandled
     /\ token.Tag = "img"
     /\ HasAttribute(token.Attr, "width", <<"1">>)
     /\ HasAttribute(token.Attr, "height", <<"1">>)) => emitted = <<>>

\* A pixel tracker with a valid src, its height first and its width last, has
\* been handled after some output was written.
C5_Witness ==
    /\ TagHandled
    /\ token.Tag = "img"
    /\ Len(token.Attr) = 4
    /\ token.Attr[1] = [Key |-> "height", Val |-> <<"1">>]
    /\ token.Attr[4] = [Key |-> "width", Val |-> <<"1">>]
    /\ HasAttribute(token.Attr, "src", uSame)
    /\ buffer # <<>>
    /\ emitted = <<>>

\* A required attribute of the tag is among the attributes that survive.
RequiredSurvives(t) ==
    \E name \in ListSet(sanitizeAttributes(baseURL, t.Tag, t.Attr).attrNames) :
        name \in ListSet(requiredAttributes[t.Tag])

\* C6: a start or self-closing tag with a required-attribute rule none of whose
\* required attributes survives writes nothing and is not pushed on the stack
\* of open tags.
C6_RequiredAttributes ==
    [][(/\ read' = read + 1
        /\ token'.Type \in {"StartTag", "SelfClosing"}
        /\ token'.Tag \in DOMAIN requiredAttributes
        /\ ~RequiredSurvives(token'))
            => (emitted' = <<>> /\ buffer' = buffer /\ tagStack' = tagStack)]_vars

\* An anchor with only a title has been handled and wrote nothing.
C6_Witness ==
    /\ TagHandled
    /\ token.Tag = "a"
    /\ AttrKeys(token.Attr) = {"title"}
    /\ emitted = <<>>
    /\ "a" \notin ListSet(tagStack)

\* C7: after a tokenizer error other than the end of the input Sanitize
\* returns the empty string; at the end of the input it returns the output
\* accumulated so far.
C7_FailClosed ==
    pc = "done" =>
        /\ err # "EOF" => result = <<>>
        /\ err = "EOF" => result = buffer

\* An error after output had been accumulated.
C7_Witness ==
    /\ pc = "done"
    /\ err = "ErrBufferExceeded"
    /\ buffer # <<>>
    /\ result = <<>>

\* C8: sanitizing the output of Sanitize again, with the same base URL, gives
\* that output.
C8_Idempotent ==
    (pc = "done" /\ err = "EOF") => Sanitize(baseURL, result) = result

(***************************************************************************)
(* Properties of the client cache, checked under ClientSpec.               *)
(***************************************************************************)
\* C9: calls with equal configurations return the same client, calls with
\* different configurations return different clients, whatever the headers,
\* and the cache keeps holding the client it returned for a configuration.
C9_CacheKeyedByConfiguration ==
    /\ \A r1, r2 \in returned : (r1.cfg = r2.cfg) <=> (r1.client = r2.client)
    /\ \A r \in returned :
         /\ r.cfg \in DOMAIN clientCache
         /\ clientCache[r.cfg] = r.client

\* Two calls with the default configuration and different headers got one
\* client, and a call with another timeout got another.
C9_Witness ==
    \E r1, r2, r3 \in returned :
        /\ r1.cfg = r2.cfg
        /\ r1.headers # r2.headers
        /\ r1.client = r2.client
        /\ r3.cfg = [r1.cfg EXCEPT !.clientTimeout = 30]
        /\ r3.cfg # r1.cfg
        /\ r3.client # r1.client

InCriticalSection(p) == callers[p].pc \in {"Lookup", "New", "Store", "Return"}

\* C10: at most one caller is between the lock and the unlock, at most one
\* client is built for a configuration, and callers with equal configurations
\* hold the same client when they return.
C10_OneClientPerConfiguration ==
    /\ \A p, q \in Callers : (InCriticalSection(p) /\ InCriticalSection(q)) => p = q
    /\ \A i, j \in DOMAIN clients : clients[i].cfg = clients[j].cfg => i = j
    /\ \A p, q \in Callers :
         (/\ callers[p].pc = "Return"
          /\ q # p
          /\ callers[q].client # 0
          /\ callers[q].cfg = callers[p].cfg) => callers[q].client = callers[p].client

\* A caller waits for the lock while another, with the same configuration, is
\* about to store the client it built.
C10_Witness ==
    \E p, q \in Callers :
        /\ p # q
        /\ callers[p].pc = "Lock"
        /\ callers[q].pc = "Store"
        /\ callers[p].cfg = callers[q].cfg

(***************************************************************************)
(* The shape of the sanitizer's output.                                    *)
(***************************************************************************)
\* A step of the loop that handled a token of the given type.
Handled(type) == read' = read + 1 /\ token'.Type = type

\* The allow-listed elements that have no content and no end tag.
VoidElements == {"br", "hr", "img", "source", "wbr"}

\* Every start tag among the tokens, void elements apart, has an end tag of its
\* name after it.
Closed(tokens) ==
    \A i \in DOMAIN tokens :
        tokens[i].Type = "StartTag" /\ tokens[i].Tag \notin VoidElements =>
            \E k \in DOMAIN tokens :
                k > i /\ tokens[k].Type = "EndTag" /\ tokens[k].Tag = tokens[i].Tag

\* C24: a non-empty output of Sanitize is syntactically closed: each start tag
\* in it (not self-closing) is followed later by an end tag of the same name.
C24_OutputClosed ==
    pc = "done" /\ result # <<>> => Closed(Tokenize(result))

CountTags(tokens, k, type, tag) ==
    Cardinality({i \in 1..k : tokens[i].Type = type /\ tokens[i].Tag = tag})

NoOrphanEndTag(tokens) ==
    \A k \in DOMAIN tokens :
        tokens[k].Type = "EndTag" =>
            CountTags(tokens, k, "EndTag", tokens[k].Tag)
                <= CountTags(tokens, k, "StartTag", tokens[k].Tag)

\* C27: at every prefix of the output the end tags of a name are no more than
\* the start tags of that name: an end tag is written only for an element that
\* was written and is still open.
C27_NoOrphanEndTag == NoOrphanEndTag(OutputTokens)

\* C28: a text token is suppressed only while the blacklist depth is above 0 or
\* while its immediate parent is an iframe; any other text token, the text after
\* a closed iframe included, is written HTML-escaped.
C28_TextSuppressedOnlyInsideBlockedOrIframe ==
    [][Handled("Text") =>
        \/ blacklistedTagDepth > 0
        \/ rawTag = "iframe"
        \/ emitted' = EscapeString(token'.Data)]_vars

\* A tag that is neither allow-listed nor blacklisted.
Unlisted(tagName) == ~isValidTag(tagName) /\ ~isBlockedTag(tagName)

\* The token handled last is the start tag of an unlisted element.
InsideUnlisted == read > 0 /\ token.Type = "StartTag" /\ Unlisted(token.Tag)

\* C29 as stated: the start tag of an unlisted element is dropped together with
\* its content: neither the tag nor the text inside it is written, and the
\* blacklist depth is left as it was.
C29_UnlistedDroppedWithContent ==
    [][/\ Handled("StartTag") /\ Unlisted(token'.Tag) =>
            emitted' = <<>> /\ blacklistedTagDepth' = blacklistedTagDepth
       /\ Handled("Text") /\ InsideUnlisted => emitted' = <<>>]_vars

\* C29: the start tag of an unlisted element is dropped, and the blacklist depth
\* and the open-tag stack are left as they were; the text inside the element is
\* kept and written HTML-escaped.
C29_UnlistedTagDroppedTextKept ==
    [][/\ Handled("StartTag") /\ Unlisted(token'.Tag) =>
            /\ emitted' = <<>>
            /\ blacklistedTagDepth' = blacklistedTagDepth
            /\ tagStack' = tagStack
       /\ Handled("Text") /\ InsideUnlisted =>
            emitted' = EscapeString(token'.Data)]_vars

C29_Witness ==
    /\ read = 2
    /\ parentTag = "div"
    /\ token.Type = "Text"
    /\ blacklistedTagDepth = 0
    /\ tagStack = <<>>
    /\ token.Data = <<"<", "&", "lt;">>
    /\ emitted = EscapeString(token.Data)
    /\ emitted # token.Data
    /\ buffer = emitted

\* C30: while the blacklist depth is above 0 no step appends anything to the
\* output, and the text of a script, style or noscript element is not written
\* even when a stray blacklisted end tag came before the element's start tag.
C30_NothingWrittenInsideBlocked ==
    [][/\ read' = read + 1 /\ blacklistedTagDepth > 0 => emitted' = <<>>
       /\ Handled("Text") /\ isBlockedTag(rawTag) => emitted' = <<>>]_vars

(***************************************************************************)
(* The refresh probability.                                                *)
(***************************************************************************)
recentCadence(j) == j.WeeklyFeedOneHourBeforeAndAfterCount

hoursSince(j) == j.HoursSinceLastCheck

clampedAge(j) ==
    IF FracLess(j.AgeDays, FracOf(1)) THEN FracOf(1)
    ELSE IF FracLess(FracOf(7), j.AgeDays) THEN FracOf(7)
    ELSE j.AgeDays

statedWeight(j) ==
    IF recentCadence(j) > 0
    THEN FracMul(FracOf(recentCadence(j)),
                 FracAdd(FracOf(1), FracDiv(Pow8(hoursSince(j)), FracOf(256))))
    ELSE FracAdd(Frac(1, 3), FracMul(Frac(5, 102), hoursSince(j)))

Sign(x) == IF x.n * x.d > 0 THEN 1 ELSE IF x.n * x.d < 0 THEN -1 ELSE 0

C18_NonDecreasingWithCadence ==
    ppc = "return" /\ recentCadence(candidate) > 0 =>
        \A j \in Candidates :
            /\ j.AgeDays = candidate.AgeDays
            /\ \/ /\ recentCadence(j) >= recentCadence(candidate)
                  /\ hoursSince(j) = hoursSince(candidate)
               \/ /\ recentCadence(j) = recentCadence(candidate)
                  /\ ~FracLess(hoursSince(j), hoursSince(candidate))
            => ~FracLess(feedRefreshProbability(j), probability)

C18_Witness ==
    /\ ppc = "return"
    /\ recentCadence(candidate) = 1
    /\ hoursSince(candidate) = Frac(3, 3)
    /\ \E j, k \in Candidates :
        /\ j.AgeDays = candidate.AgeDays
        /\ k.AgeDays = candidate.AgeDays
        /\ recentCadence(j) = 2
        /\ hoursSince(j) = hoursSince(candidate)
        /\ recentCadence(k) = 1
        /\ hoursSince(k) = Frac(9, 3)
        /\ FracLess(probability, feedRefreshProbability(j))
        /\ FracLess(probability, feedRefreshProbability(k))

\* C19: whatever the raw age (zero, negative, very large), the divisor is at
\* least 1 and at most 7, so that the division is by a positive number and the
\* probability has the sign of the weight.
C19_DivisorWithinOneAndSeven ==
    ppc = "return" =>
        /\ ~FracLess(feedAge(candidate), FracOf(1))
        /\ ~FracLess(FracOf(7), feedAge(candidate))
        /\ probability.d # 0
        /\ Sign(probability) = Sign(weight(candidate))

C19_Witness ==
    /\ ppc = "return"
    /\ candidate.AgeDays.n <= 0
    /\ FracEq(feedAge(candidate), FracOf(1))
    /\ Sign(probability) = Sign(weight(candidate))
    /\ Sign(probability) # 0

(***************************************************************************)
(* The batch operations.                                                   *)
(***************************************************************************)
FeedIDs(js) == {js[i].FeedID : i \in DOMAIN js}

Feed(id) == CHOOSE f \in feeds : f.id = id

Elapsed(f) == f.next_check_at < 0

\* SelectDueBatch(n, t): NewBatch, or a builder given the error limit.
IsDueBatch ==
    \/ call.name = "NewBatch"
    \/ /\ call.name = "FetchJobs"
       /\ call.methods =
            {"WithBatchSize", "WithErrorLimit", "WithNextCheckExpired", "WithoutDisabledFeeds"}

\* SelectUserBatch(u, n): NewUserBatch, or a builder given the owner and no
\* error limit.
IsUserBatch(u) ==
    /\ call.userID = u
    /\ \/ call.name = "NewUserBatch"
       \/ /\ call.name = "FetchJobs"
          /\ call.methods =
               {"WithBatchSize", "WithUserID", "WithNextCheckExpired", "WithoutDisabledFeeds"}

IsProbabilisticBatch == call.name = "NewFrequencyBasedRandomedBatch"

\* A feed that keeps failing: not disabled, due, and with at least t parse errors.
Erroring(f) ==
    /\ pollingParsingErrorLimit > 0
    /\ f.disabled = FALSE
    /\ Elapsed(f)
    /\ f.parsing_error_count >= pollingParsingErrorLimit

\* C11: for a threshold t > 0 and a feed of owner u that is not disabled, whose
\* next-check time has elapsed and whose parse error count is at least t, a user
\* batch of u with room for all feeds includes the feed while a due batch with
\* threshold t excludes it.
C11_UserBatchIgnoresErrorCount ==
    spc = "done" =>
        \A f \in feeds :
            Erroring(f) =>
                /\ /\ IsUserBatch(f.user_id)
                   /\ failure = "none"
                   /\ call.batchSize >= Cardinality(feeds)
                   => f.id \in FeedIDs(jobs)
                /\ IsDueBatch => f.id \notin FeedIDs(jobs)

C11_Witness ==
    /\ spc = "done"
    /\ call.name = "FetchJobs"
    /\ IsDueBatch
    /\ jobs # <<>>
    /\ \E f \in feeds : Erroring(f) /\ f.id \notin FeedIDs(jobs)

\* The rows the query of the operation called may yield.
PossibleRows ==
    IF call.name = "NewBatch"
    THEN NewBatchQuery(feeds, pollingParsingErrorLimit, call.batchSize)
    ELSE IF call.name = "NewUserBatch"
    THEN NewUserBatchQuery(feeds, call.userID, call.batchSize)
    ELSE FetchJobsQuery(b, feeds)

DueEligible(f) ==
    /\ f.disabled = FALSE
    /\ Elapsed(f)
    /\ pollingParsingErrorLimit > 0 => f.parsing_error_count < pollingParsingErrorLimit

AscendingByNextCheck(js) ==
    \A i, k \in DOMAIN js :
        i < k => Feed(js[i].FeedID).next_check_at <= Feed(js[k].FeedID).next_check_at

Smaller(x, y) == IF x < y THEN x ELSE y

\* C12: a due batch of size n with threshold t is exactly the first n feeds, by
\* ascending next-check time, among the feeds that are not disabled, whose
\* next-check time has elapsed and, when t > 0, whose parse error count is below
\* t: no other feed is returned, no eligible feed with an earlier next-check time
\* is left out, and the stored state determines the result.
C12_DueBatchIsFirstEligible ==
    spc = "done" /\ IsDueBatch /\ failure = "none" =>
        /\ \A id \in FeedIDs(jobs) : DueEligible(Feed(id))
        /\ Len(jobs) = Smaller(call.batchSize, Cardinality({f \in feeds : DueEligible(f)}))
        /\ AscendingByNextCheck(jobs)
        /\ \A f \in feeds, id \in FeedIDs(jobs) :
            DueEligible(f) /\ f.id \notin FeedIDs(jobs)
                => Feed(id).next_check_at <= f.next_check_at
        /\ \A o \in PossibleRows : scanJobs(o) = jobs

\* C13: every job of a user batch of u belongs to u, is not disabled and has an
\* elapsed next-check time, and the jobs come by ascending next-check time.
C13_UserBatchScopedAndDue ==
    \A u \in UserIDs :
        spc = "done" /\ IsUserBatch(u) =>
            /\ \A id \in FeedIDs(jobs) :
                /\ Feed(id).user_id = u
                /\ Feed(id).disabled = FALSE
                /\ Elapsed(Feed(id))
            /\ AscendingByNextCheck(jobs)

\* C14: a due batch, a user batch and a probabilistic batch asked for n jobs
\* return at most n jobs, for every n >= 0.
C14_AtMostBatchSize ==
    /\ spc = "done"
    /\ IsDueBatch \/ IsProbabilisticBatch \/ \E u \in UserIDs : IsUserBatch(u)
    => Len(jobs) <= call.batchSize

\* C15: when a storage read of a batch operation fails (the query, the scan of a
\* row, the iteration over the rows), the operation returns an error and no job.
C15_AllOrNothing ==
    /\ spc = "done"
    /\ IsDueBatch \/ IsProbabilisticBatch \/ \E u \in UserIDs : IsUserBatch(u)
    /\ failure # "none"
    => batchErr # "nil" /\ jobs = <<>>

\* The candidates of the probabilistic batch.
IsCandidate(f) == f.disabled = FALSE /\ ErrorCountCase(f, pollingParsingErrorLimit)

\* Checked longer ago.
Staler(f, g) == FracLess(g.last_checked_at, f.last_checked_at)

Position(seq, x) == CHOOSE i \in DOMAIN seq : seq[i] = x

\* C20: the probabilistic batch draws its candidates by ascending last-checked
\* time and draws none once maxBatchSize jobs are admitted: the jobs come by
\* ascending last-checked time, and every candidate checked longer ago than a
\* returned job was drawn before that job.
C20_StalestFirst ==
    /\ [](IsProbabilisticBatch /\ failure = "none" =>
            /\ \A i, k \in DOMAIN drawn : i < k => ~Staler(Feed(drawn[k]), Feed(drawn[i]))
            /\ \A i, k \in DOMAIN jobs :
                i < k => ~Staler(Feed(jobs[k].FeedID), Feed(jobs[i].FeedID))
            /\ \A f \in feeds, id \in FeedIDs(jobs) :
                IsCandidate(f) /\ Staler(f, Feed(id))
                    => /\ f.id \in {drawn[i] : i \in DOMAIN drawn}
                       /\ Position(drawn, f.id) < Position(drawn, id))
    /\ [][IsProbabilisticBatch /\ Len(jobs) >= call.batchSize => drawn' = drawn]_vars

(***************************************************************************)
(* The request builder.                                                    *)
(***************************************************************************)

\* The builders and header maps a call leaves behind.
RAfter == [headerMaps |-> headerMaps', builders |-> builders']

\* A call on a builder has been made in this step.
BuilderCalled == rcalls' = rcalls + 1

SameBuilder(s, r, t, q) ==
    /\ Headers(s, r) = Headers(t, q)
    /\ s.builders[r].clientConfig = t.builders[q].clientConfig

\* C23: a call (a setter, ExecuteRequest, Copy) on one builder leaves the
\* headers and the client configuration of every other builder as they were,
\* so that a copy and its original never change each other; a copy starts
\* with headers and a configuration equal to those of its original, which
\* Copy leaves as they were.
C23_CopyIsolation ==
    [][BuilderCalled =>
        /\ \A y \in 1..Len(builders) :
              y # rcall'.on => SameBuilder(RAfter, y, R, y)
        /\ rcall'.op = "Copy" =>
              /\ rcall'.ret = Len(builders) + 1
              /\ SameBuilder(RAfter, rcall'.ret, R, rcall'.on)
              /\ SameBuilder(RAfter, rcall'.on, R, rcall'.on)]_vars

\* ExecuteRequest on a copy has set Accept in the copy's headers, and the
\* original has no such header.
C23_Witness ==
    /\ Len(builders) = 2
    /\ rcall.op = "ExecuteRequest"
    /\ rcall.on = 2
    /\ rcall.err = "nil"
    /\ "Accept" \in DOMAIN Headers(R, 2)
    /\ "Accept" \notin DOMAIN Headers(R, 1)

\* The headers of the builder called are those before the call but for the
\* value of key.
HeaderSet(key, value) ==
    /\ DOMAIN Headers(RAfter, rcall'.on) = DOMAIN Headers(R, rcall'.on) \cup {key}
    /\ Headers(RAfter, rcall'.on)[key] = value
    /\ \A k \in DOMAIN Headers(R, rcall'.on) :
          k # key => Headers(RAfter, rcall'.on)[k] = Headers(R, rcall'.on)[k]

\* The key and the value a call with a non-empty input sets.
Written(c) ==
    CASE c.op = "WithHeader" ->
           <<CanonicalMIMEHeaderKey(c.args[1]), c.args[2]>>
      [] c.op = "WithETag" -> <<"If-None-Match", c.args[1]>>
      [] c.op = "WithLastModified" -> <<"If-Modified-Since", c.args[1]>>
      [] c.op = "WithUsernameAndPassword" ->
           <<"Authorization", "Basic " \o EncodeToString(c.args[1], c.args[2])>>

EmptyInput(c) ==
    /\ c.op \in {"WithETag", "WithLastModified", "WithUsernameAndPassword"}
    /\ \E i \in DOMAIN c.args : c.args[i] = ""

\* C26: WithETag, WithLastModified and WithUsernameAndPassword called with an
\* empty input (for basic auth: an empty username or an empty password) leave
\* every header map as it was, a value set earlier for their header included;
\* called with a non-empty input they set their header, as WithHeader does, to
\* the value given last whatever was there before, and nothing else; every
\* setter returns the builder it was called on and makes no new builder.
C26_ConditionalSetters ==
    [][BuilderCalled /\ rcall'.op \notin {"Copy", "ExecuteRequest"} =>
        /\ rcall'.ret = rcall'.on
        /\ Len(builders') = Len(builders)
        /\ builders'[rcall'.on].headers = builders[rcall'.on].headers
        /\ EmptyInput(rcall') => headerMaps' = headerMaps
        /\ /\ rcall'.op \in {"WithHeader", "WithETag", "WithLastModified",
                             "WithUsernameAndPassword"}
           /\ ~EmptyInput(rcall')
           => HeaderSet(Written(rcall')[1], Written(rcall')[2])]_vars

\* WithETag("") on a builder whose If-None-Match was set earlier, by
\* WithHeader under another spelling of the key.
C26_Witness ==
    /\ rcall.op = "WithETag"
    /\ rcall.args = <<"">>
    /\ "If-None-Match" \in DOMAIN Headers(R, rcall.on)
    /\ Headers(R, rcall.on)["If-None-Match"] = "v"
    /\ rcalls = 3

\* ExecuteRequest has been called in this step; the configuration it hands to
\* makeClient and the client it got.
Executed == BuilderCalled /\ rcall'.op = "ExecuteRequest"
ConfigOfCall == builders[rcall'.on].clientConfig
ClientOfCall == clients'[rcall'.client].client

ProxyConfigured(cfg) ==
    /\ cfg.useClientProxy
    /\ cfg.clientProxyURL # ""
    /\ ~ProxyParseFails(cfg.clientProxyURL)

\* C25 as stated: the client of a request goes through the configured proxy
\* when the flag is set and the URL is non-empty and parses, and through no
\* proxy at all in every other case; a proxy URL that does not parse makes
\* neither makeClient nor the request fail.
C25_NoProxyUnlessConfigured ==
    [][Executed =>
        /\ rcall'.client \in DOMAIN clients'
        /\ proxyOf(ClientOfCall.Transport, proxyEnv) =
              IF ProxyConfigured(ConfigOfCall) THEN ConfigOfCall.clientProxyURL
              ELSE ""
        /\ ~NewRequestFails(rcall'.args[1]) => rcall'.err = "nil"]_vars

\* C25 (amended): the client of a request goes through the configured proxy
\* when the flag is set and the URL is non-empty and parses; in every other
\* case its transport keeps http.ProxyFromEnvironment, so that the request
\* goes through the proxy the environment names, and through none when the
\* environment names none; a proxy URL that does not parse makes neither
\* makeClient nor the request fail.
C25_EnvironmentProxyUnlessConfigured ==
    [][Executed =>
        /\ rcall'.client \in DOMAIN clients'
        /\ ClientOfCall.Transport.Proxy =
              IF ProxyConfigured(ConfigOfCall) THEN ConfigOfCall.clientProxyURL
              ELSE "ProxyFromEnvironment"
        /\ proxyOf(ClientOfCall.Transport, proxyEnv) =
              IF ProxyConfigured(ConfigOfCall) THEN ConfigOfCall.clientProxyURL
              ELSE proxyEnv
        /\ ~NewRequestFails(rcall'.args[1]) => rcall'.err = "nil"]_vars

\* A request made with the flag set and a proxy URL that does not parse, in an
\* environment that names a proxy: the client is made, the request does not
\* fail, and it goes through the environment's proxy.
C25_Witness ==
    /\ rcall.op = "ExecuteRequest"
    /\ rcall.err = "nil"
    /\ builders[rcall.on].clientConfig.useClientProxy
    /\ ProxyParseFails(builders[rcall.on].clientConfig.clientProxyURL)
    /\ proxyEnv # ""
    /\ rcall.client \in DOMAIN clients
    /\ proxyOf(clients[rcall.client].client.Transport, proxyEnv) = proxyEnv

(***************************************************************************)
(* The custom script.                                                      *)
(***************************************************************************)

\* rewriteEntries has returned, and with which error.
Returned == rpc = "done"

\* The value read back is not JSON text, is not an array, or holds an element
\* that is no object.
Undecodable(s) ==
    \/ s.outcome = "unmarshalable"
    \/ /\ s.outcome = "ok"
       /\ \/ s.output.kind \notin {"array", "null"}
          \/ \E i \in DOMAIN s.output.elems : s.output.elems[i].kind = "number"

\* The script ran, entries was read back and decoded.
Successful == script.outcome = "ok" /\ ~Undecodable(script)

\* The objects in the output: the decoded elements hold what the
\* output says, member by member.
OutputObjects ==
    IF script.output.kind = "array"
    THEN {script.output.elems[i] : i \in DOMAIN script.output.elems}
    ELSE {}

OutputHashes ==
    {el.members["hash"] : el \in {e \in OutputObjects : "hash" \in DOMAIN e.members}}

ListedIn(list) == {list[i] : i \in DOMAIN list}

\* Object o holds what some element of the output of its hash says, and its
\* other fields are those before the call.
Rejoined(o) ==
    /\ \A f \in {"ID", "Hash", "Status"} : entryObjects[o][f] = rbefore.entryObjects[o][f]
    /\ \E el \in OutputObjects :
          /\ "hash" \in DOMAIN el.members
          /\ el.members["hash"] = entryObjects[o].Hash
          /\ \A f \in SafeFields \ {"Hash"} :
                jsonTag(f) \in DOMAIN el.members =>
                    entryObjects[o][f] = el.members[jsonTag(f)]

\* C21: a run of rewriteEntries whose script succeeded ends by returning, and
\* then the entry list of the feed holds exactly the original entry objects
\* whose hash is in the output, each with the title, URL, comments URL,
\* content and author an output element of its hash gives and its other
\* fields unchanged; the objects left out of the list are unchanged.
C21_RejoinedByHash ==
    /\ rpc # "panic"
    /\ Returned /\ Successful =>
        /\ rerr = "nil"
        /\ ListedIn(feedEntries[1]) =
              {o \in ListedIn(rbefore.feedEntries[1]) :
                  rbefore.entryObjects[o].Hash \in OutputHashes}
        /\ \A o \in ListedIn(feedEntries[1]) : Rejoined(o)
        /\ \A o \in DOMAIN entryObjects :
              o \notin ListedIn(feedEntries[1]) =>
                  entryObjects[o] = rbefore.entryObjects[o]

ScriptFailed == script.outcome \in {"throws", "unreadable"} \/ Undecodable(script)

\* C22: when the script throws, or entries cannot be read back or decoded,
\* rewriteEntries returns at once with the error of the step that failed, and
\* the entry list of the feed, every field of every entry and the entries of
\* the other feed are those before the call.
C22_FailureLeavesFeedUntouched ==
    ScriptFailed =>
        /\ Returned
        /\ rerr # "nil"
        /\ script.outcome = "throws" => rerr = "script error"
        /\ script.outcome = "unreadable" => rerr = "read error"
        /\ feedEntries = rbefore.feedEntries
        /\ entryObjects = rbefore.entryObjects

\* The output holds an object that rewrites the feed's entry and then a
\* number: the object was decoded into the copy, the call returned the
\* decoding error, and the entry still has its own title.
C22_Witness ==
    /\ Returned
    /\ script.outcome = "ok"
    /\ script.output.kind = "array"
    /\ rerr = "json: cannot unmarshal number"
    /\ feedEntries[1] = <<1>>
    /\ Len(safeEntries) = 2
    /\ safeEntries[1] # nilSafeEntry
    /\ safeEntries[1].Hash = entryObjects[1].Hash
    /\ safeEntries[1].Title = "new title"
    /\ entryObjects[1].Title = "title 1"

\* C36: ExecuteRequest leaves the headers of the builder it is called on, and
\* every other header map, as they were before the call: the Accept header
\* goes on the outgoing request only.
C36_ExecuteRequestLeavesBuilder ==
    [][Executed =>
        /\ headerMaps' = headerMaps
        /\ builders' = builders]_vars

(***************************************************************************)
(* The clients of the cache.                                               *)
(***************************************************************************)

\* Client c is the one its configuration asks for.
Reflects(c, cfg) ==
    /\ c.Transport.InsecureSkipVerify <=> cfg.ignoreTLSErrors
    /\ c.CheckRedirect = "ErrUseLastResponse" <=> cfg.withoutRedirects
    /\ c.CheckRedirect = "nil" <=> ~cfg.withoutRedirects
    /\ c.Transport.TLSNextProto = "empty" <=> cfg.disableHTTP2
    /\ c.Transport.ForceAttemptHTTP2 <=> ~cfg.disableHTTP2
    /\ c.Timeout = cfg.clientTimeout

ElementEmitted ==
    /\ read' = read + 1
    /\ token'.Type \in {"StartTag", "SelfClosing"}
    /\ emitted' # <<>>

\* The element written, read back from the output.
OutElement(out) == Tokenize(out)[1]

Keys(attributes) == [i \in DOMAIN attributes |-> attributes[i].Key]

RECURSIVE IsSubsequence(_, _)
IsSubsequence(s, of) ==
    IF s = <<>> THEN TRUE
    ELSE IF of = <<>> THEN FALSE
    ELSE IF Head(s) = Head(of) THEN IsSubsequence(Tail(s), Tail(of))
    ELSE IsSubsequence(s, Tail(of))

HasSuffix(s, suffix) ==
    /\ Len(suffix) <= Len(s)
    /\ SubSeq(s, Len(s) - Len(suffix) + 1, Len(s)) = suffix

\* The attributes injected for a tag.
Injected(tagName) ==
    CASE tagName = "a" ->
           <<KV("rel", <<"noopener", " ", "noreferrer">>),
             KV("target", <<"_blank">>),
             KV("referrerpolicy", <<"no-referrer">>)>>
      [] tagName = "iframe" ->
           <<KV("sandbox", <<"allow-scripts", " ", "allow-same-origin", " ",
                              "allow-popups">>),
             KV("loading", <<"lazy">>)>>
      [] tagName = "img" -> <<KV("loading", <<"lazy">>)>>
      [] tagName \in {"video", "audio"} -> <<KV("controls", <<>>)>>
      [] OTHER -> <<>>

IsFragment(value) == HasPrefix(value, <<"#">>)

\* Element e, written for token t, ends with the attributes injected for its
\* tag, after attributes of t in the order of t.
CarriesInjected(e, t) ==
    /\ HasSuffix(e.Attr, Injected(e.Tag))
    /\ IsSubsequence(Keys(SubSeq(e.Attr, 1, Len(e.Attr) - Len(Injected(e.Tag)))),
                     Keys(t.Attr))

CarriesNoneInjected(e) ==
    \A i \in DOMAIN e.Attr : e.Attr[i].Key \notin {"rel", "target", "referrerpolicy"}

ExtraAttributesOK(e, t) ==
    /\ e.Tag = t.Tag
    /\ e.Tag \in {"iframe", "img", "video", "audio"} => CarriesInjected(e, t)
    /\ e.Tag = "a" /\ ~IsFragment(getAttributeValue("href", e.Attr)) =>
          CarriesInjected(e, t)
    /\ e.Tag = "a" /\ (\A i \in DOMAIN e.Attr :
                          e.Attr[i].Key = "href" => IsFragment(e.Attr[i].Val)) =>
          CarriesNoneInjected(e)

\* C31: an emitted anchor whose href is not a same-page fragment ends with
\* rel="noopener noreferrer", target="_blank" and
\* referrerpolicy="no-referrer", an emitted iframe with the sandbox tokens and
\* loading="lazy", an emitted img with loading="lazy", an emitted video or
\* audio with controls, each after the surviving attributes in the order they
\* came in; an anchor whose only href is a fragment carries none of them.
C31_ExtraAttributes ==
    [][ElementEmitted => ExtraAttributesOK(OutElement(emitted'), token')]_vars

\* The candidates of a srcset value as written: [url, descriptor] for each
\* part between commas, the descriptor being what follows the first space.
\* An empty value read as input is one candidate with an empty URL, an empty
\* value written is an empty list.
CandidateOf(part) ==
    IF Contains(part, <<" ">>)
    THEN [url        |-> SubSeq(part, 1, IndexOf(part, <<" ">>) - 1),
          descriptor |-> SubSeq(part, IndexOf(part, <<" ">>) + 1, Len(part))]
    ELSE [url |-> part, descriptor |-> <<>>]

CandidatesOf(value) ==
    [i \in DOMAIN Split(value, ",") |-> CandidateOf(TrimSpace(Split(value, ",")[i]))]

\* The srcset of the element written, if it has one.
HasSrcset(e) == \E i \in DOMAIN e.Attr : e.Attr[i].Key = "srcset"
OutSrcset(out) ==
    IF getAttributeValue("srcset", OutElement(out).Attr) = <<>> THEN <<>>
    ELSE CandidatesOf(getAttributeValue("srcset", OutElement(out).Attr))

SrcsetEmitted ==
    /\ ElementEmitted
    /\ token'.Tag \in {"img", "source"}
    /\ HasSrcset(token')

PositiveNumerals == {"1", "2", "+1", "1.5", "5", "750", "800"}

ValidDescriptor(d) ==
    /\ Len(d) = 2
    /\ d[1] \in PositiveNumerals
    /\ d[2] \in {"w", "x"}

\* The candidates of the token's srcset whose URL resolves against the base.
Resolvable(base, candidates) ==
    {i \in DOMAIN candidates : ~AbsoluteURL(base, candidates[i].url).err}

\* C32: the srcset written for an img or source holds one candidate for each
\* candidate of the input whose URL resolves, none for the others; every URL
\* in it is absolute, and a descriptor is there only when it is a positive
\* number followed by w or by x.
C32_SrcsetCandidates ==
    [][SrcsetEmitted =>
        /\ HasSrcset(OutElement(emitted'))
        /\ Len(OutSrcset(emitted')) =
              Cardinality(Resolvable(baseURL, CandidatesOf(
                  getAttributeValue("srcset", token'.Attr))))
        /\ \A i \in DOMAIN OutSrcset(emitted') :
              /\ IsAbs(OutSrcset(emitted')[i].url)
              /\ ~ParseFails(OutSrcset(emitted')[i].url)
              /\ OutSrcset(emitted')[i].descriptor # <<>> =>
                    ValidDescriptor(OutSrcset(emitted')[i].descriptor)]_vars

\* C33: no URL of a srcset written for an img or source has a scheme outside
\* the list of valid schemes or is a blocked resource.
C33_SrcsetSchemes ==
    [][SrcsetEmitted =>
        \A i \in DOMAIN OutSrcset(emitted') :
            /\ hasValidURIScheme(OutSrcset(emitted')[i].url)
            /\ ~isBlockedResource(OutSrcset(emitted')[i].url)]_vars

\* The width an img token declares (the first width attribute) exceeds 750;
\* 800 is the one numeral of the model above it.
DeclaresLargeWidth(t) == getAttributeValue("width", t.Attr) = <<"800">>

PositiveIntegers == {"1", "+1", "5", "750", "800"}

IsDimension(attribute) == attribute.Key \in {"width", "height"}

\* C34: every width and height written for an img has a positive integer for
\* value, and none is written when the width the img declares exceeds 750; an
\* img declaring such a width and a valid src is still written, with its src.
C34_ImgDimensions ==
    [][read' = read + 1 /\ token'.Tag = "img" =>
        /\ emitted' # <<>> =>
              \A i \in DOMAIN OutElement(emitted').Attr :
                  IsDimension(OutElement(emitted').Attr[i]) =>
                      /\ Len(OutElement(emitted').Attr[i].Val) = 1
                      /\ OutElement(emitted').Attr[i].Val[1] \in PositiveIntegers
                      /\ ~DeclaresLargeWidth(token')
        /\ DeclaresLargeWidth(token') /\ getAttributeValue("src", token'.Attr) = uSame =>
              /\ emitted' # <<>>
              /\ getAttributeValue("src", OutElement(emitted').Attr) = uSame]_vars

\* An img declaring a width of 800 and a height of 5 has been written with its
\* src and without dimensions.
C34_Witness ==
    /\ read = 1
    /\ token.Tag = "img"
    /\ token.Attr = <<KV("src", uSame), KV("width", <<"800">>), KV("height", <<"5">>)>>
    /\ emitted # <<>>
    /\ Keys(OutElement(emitted).Attr) = <<"src", "loading">>
    /\ buffer = emitted

(***************************************************************************)
(* Repeated selection.                                                     *)
(***************************************************************************)

\* The feed is a candidate of the selection and has no recent cadence.
Dormant(id) ==
    \E row \in feeds :
        /\ row.id = id
        /\ row.disabled = FALSE
        /\ ErrorCountCase(row, pollingParsingErrorLimit)
        /\ row.range_count = 0

\* The batch that is returned holds the feed.
Admitted(id) == spc = "done" /\ id \in FeedIDsOf(jobs)

\* C37: under repeated selection with a batch size of at least 1, a feed that
\* is not disabled, passes the error-count filter, has a recent cadence of 0
\* and stays unchecked is eventually admitted to a batch: other candidates
\* filling the batch before it is evaluated do not keep it out forever.
C37_MinimumRefreshPressure ==
    \A id \in RefreshFeedIDs : Dormant(id) ~> Admitted(id)

=============================================================================
